---- MODULE Spec2Model ----
(***************************************************************************)
(* The signed, dual-transport agent-invocation bridge of the serverless    *)
(* agent pattern: the two Lambda handlers (buffered and streaming), the    *)
(* lazily constructed Mastra instance, the remoteAgentProxy MCP tool, the  *)
(* chat CLI and the two transport invokers.                                *)
(*                                                                         *)
(* Each operating-system process of the deployment is one value of `proc`: *)
(* a behaviour of Spec is the life of one such process.  Text is modelled  *)
(* as a sequence of one-character strings, bytes as symbolic byte names.   *)
(***************************************************************************)
EXTENDS Integers, Sequences, FiniteSets, TLC

VARIABLES
    proc,                   \* which program this process runs
    \* ---- src/lib/index.ts: the lazily constructed Mastra instance
    inits,                  \* one entry per initializeMastra() execution: its promise's state
    mastraInstancePromise,  \* 0 (null) or the index in inits of the cached promise
    callers,                \* concurrent callers of getMastraInstance
    \* ---- the Lambda handlers
    hpc,                    \* position of the handler invocation in progress
    event,                  \* body of the event in hand (or of the last one handled)
    heldPromise,            \* the promise the handler awaits
    agentCall,              \* generate()/stream() call made for the event in hand
    prevAgentCall,          \* the agent call made before that one
    response,               \* APIGatewayProxyResult of the buffered handler
    writes,                 \* responseStream.write() calls, in order
    endCalls,               \* number of responseStream.end() calls
    writesAfterEnd,         \* responseStream.write() calls made after an end() call
    contentType,            \* responseStream.setContentType() argument
    networkBuilds,          \* createAwsAgentNetwork() calls made by this process
    \* ---- inputs and outputs of the pure functions checked on their own
    chunkInputs,            \* fragments still to be handed to handleStreamingChunk
    idPairs,                \* two (agent, threadId) pairs
    derived,                \* their namespaced thread ids, once derived
    toolCalls,              \* tool executions still to be made: the tool and what its body meets
    toolOutcomes,           \* what each execution made so far gave the tool's caller
    s3Input,                \* the stream and maxSize streamToString is called with
    s3Run,                  \* the streamToString call in progress and its promise
    sigInput,               \* the invoker, endpoint URL, method and body of a signed call
    sigRun,                 \* that call's position, the request it signed and the one it sent
    \* ---- CloudFormation stack-output lookups of this process
    lookups,                \* per output key, the number of DescribeStacks lookups made
    resolvedKeys,           \* the output keys a lookup has returned a URL for
    lookupResults,          \* per output key, how its last lookup went and what it gave its caller
    \* ---- the remoteAgentProxy MCP tool
    ppc,                    \* position of the tool call in progress
    input,                  \* the validated input of the tool call in hand
    toolResult,             \* what the CallTool handler returned last
    invocations,            \* tool calls received so far
    lookupCalls,            \* getCfnOutput calls made for the tool call in hand
    proxySent,              \* the request bodies the proxy has sent so far
    \* ---- the transport invoker in progress
    tpc,                    \* its position
    terror,                 \* why it failed
    fetchCalls,             \* fetch() calls it has issued
    httpResponse,           \* the Response fetch() resolved to
    responseBody,           \* what response.json() resolved to
    readers,                \* getReader() calls made on the response body
    readCalls,              \* reader.read() calls made
    handed,                 \* fragments handed to the caller (onChunk, or appended)
    bodyText,               \* the text the response body carries
    remaining,              \* the bytes of the body not yet read
    decoderPending,         \* bytes the TextDecoder holds back
    accumulatedResponse,    \* the proxy's accumulator
    onChunkCalls,           \* the arguments of the onChunk calls, in order
    written,                \* what handleStreamingChunk wrote to stdout for them
    \* ---- scripts/interactive-chat.ts: the chat CLI
    cpc,                    \* position of the CLI
    config,                 \* AppConfig
    state,                  \* ChatState
    requestBody,            \* the request body of the invocation in hand
    sentIds,                \* the (threadId, resourceId) pairs of the requests sent so far
    printed                 \* what the invocation in hand printed as its outcome

lambdaVars == <<hpc, event, heldPromise, agentCall, prevAgentCall, response,
                writes, endCalls, writesAfterEnd, contentType, networkBuilds>>
mastraVars == <<inits, mastraInstancePromise>>
vars == <<proc, inits, mastraInstancePromise, callers, hpc, event, heldPromise,
          agentCall, prevAgentCall, response, writes, endCalls, writesAfterEnd,
          contentType,
          networkBuilds,
          chunkInputs, idPairs, derived, toolCalls, toolOutcomes,
          s3Input, s3Run, sigInput, sigRun, lookups, resolvedKeys, lookupResults, ppc, input, toolResult,
          invocations, lookupCalls, proxySent, tpc, terror, fetchCalls, httpResponse,
          bodyText, remaining, decoderPending, accumulatedResponse, onChunkCalls, written,
          cpc, config, state, responseBody, requestBody, sentIds, printed,
          readers, readCalls, handed>>
cliVars == <<cpc, config, state, requestBody, sentIds, printed>>
toolVars == <<toolCalls, toolOutcomes>>
s3Vars == <<s3Input, s3Run>>
signingVars == <<sigInput, sigRun>>
derivationVars == <<idPairs, derived, chunkInputs, toolVars, s3Vars, signingVars>>
lookupVars == <<lookups, resolvedKeys, lookupResults>>
proxyVars == <<ppc, input, toolResult, invocations, lookupCalls, proxySent>>
transportVars == <<tpc, terror, fetchCalls, httpResponse, bodyText, remaining,
                   decoderPending, accumulatedResponse, onChunkCalls, written, responseBody,
                   readers, readCalls, handed>>
readerVars == <<readers, readCalls, handed>>
clientVars == <<lookupVars, proxyVars, transportVars, cliVars>>
serverVars == <<mastraVars, callers, lambdaVars>>

-----------------------------------------------------------------------------
(* Bounds of the model *)

NumCallers == 2     \* concurrent callers of getMastraInstance
MaxChunks == 2      \* chunks an agent's textStream yields
MaxIdLen == 3       \* characters of a thread id in the derivation check
MaxInvocations == 2 \* tool calls one proxy process receives
MaxTextLen == 2     \* characters of a streamed response body
MaxNetworkBuilds == 2   \* awsAgentNetwork invocations one streaming process serves

-----------------------------------------------------------------------------
(* src/constants.ts *)

CLOUDFORMATION_AGENT ==
    <<"c", "l", "o", "u", "d", "f", "o", "r", "m", "a", "t", "i", "o", "n", "A", "g", "e", "n", "t">>
CODEPIPELINE_AGENT ==
    <<"c", "o", "d", "e", "p", "i", "p", "e", "l", "i", "n", "e", "A", "g", "e", "n", "t">>
CLOUDWATCHLOGS_AGENT ==
    <<"c", "l", "o", "u", "d", "w", "a", "t", "c", "h", "L", "o", "g", "s", "A", "g", "e", "n", "t">>
LAMBDA_AGENT ==
    <<"l", "a", "m", "b", "d", "a", "A", "g", "e", "n", "t">>
DYNAMODB_AGENT ==
    <<"d", "y", "n", "a", "m", "o", "d", "b", "A", "g", "e", "n", "t">>
S3_AGENT ==
    <<"s", "3", "A", "g", "e", "n", "t">>
AWS_AGENT ==
    <<"a", "w", "s", "A", "g", "e", "n", "t">>
AWS_AGENT_NETWORK ==
    <<"a", "w", "s", "A", "g", "e", "n", "t", "N", "e", "t", "w", "o", "r", "k">>

AWS_AGENT_NAMES ==
    {CLOUDFORMATION_AGENT, CODEPIPELINE_AGENT, CLOUDWATCHLOGS_AGENT, LAMBDA_AGENT,
     DYNAMODB_AGENT, S3_AGENT, AWS_AGENT}

AWS_AGENT_NAMES_WITH_NETWORK == AWS_AGENT_NAMES \cup {AWS_AGENT_NETWORK}

-----------------------------------------------------------------------------
(* Optional values: undefined is the empty set, a present value v is {v}. *)

Undefined == {}
Some(v) == {v}
ValueOf(o) == CHOOSE v \in o : TRUE

-----------------------------------------------------------------------------
(* src/lambda/shared.ts: the request envelope *)

\* A request body is null, a string that is not JSON, or a JSON object whose
\* four fields are each absent (or not a string) or a string.
NullBody == [kind |-> "null"]
NotJsonBody == [kind |-> "notjson"]
JsonBody(q, t, r, a) ==
    [kind |-> "json", query |-> q, threadId |-> t, resourceId |-> r, agent |-> a]

\* BodyContentSchema: query, threadId and resourceId are z.string(); agent is
\* z.enum(AWS_AGENT_NAMES_WITH_NETWORK).optional().default(AWS_AGENT).
BodyContentSchema(b) ==
    /\ b.query # Undefined
    /\ b.threadId # Undefined
    /\ b.resourceId # Undefined
    /\ b.agent # Undefined => ValueOf(b.agent) \in AWS_AGENT_NAMES_WITH_NETWORK

\* EventBodySchema: a non-null string that parses as JSON, piped into
\* BodyContentSchema.
EventBodySchema(b) ==
    /\ b # NullBody
    /\ b # NotJsonBody
    /\ BodyContentSchema(b)

\* The data safeParse returns for a valid body: the agent defaulted.
ParsedBody(b) ==
    [query |-> ValueOf(b.query),
     threadId |-> ValueOf(b.threadId),
     resourceId |-> ValueOf(b.resourceId),
     agent |-> IF b.agent = Undefined THEN AWS_AGENT ELSE ValueOf(b.agent)]

-----------------------------------------------------------------------------
(* src/lambda/streaming.ts line 63: the namespaced thread id *)

Separator == <<":", ":">>

\* (mutation) the separator is left out
namespacedThreadId_NoSeparator(agent, threadId) == agent \o threadId

namespacedThreadId(agent, threadId) == agent \o Separator \o threadId

-----------------------------------------------------------------------------
(* src/lib/index.ts: getMastraInstance and initializeMastra *)

NoPromise == 0

\* (mutation) the resolved instance is cached, not the promise
NeedsInit_CachesInstance ==
    \/ mastraInstancePromise = NoPromise
    \/ inits[mastraInstancePromise] # "resolved"

\* if (!mastraInstancePromise)
NeedsInit == mastraInstancePromise = NoPromise

\* The synchronous body of getMastraInstance(): the first call starts
\* initializeMastra() and caches its promise; the promise returned is
\* mastraInstancePromise'.
getMastraInstance ==
    IF NeedsInit
      THEN /\ inits' = Append(inits, "pending")
           /\ mastraInstancePromise' = Len(inits) + 1
      ELSE UNCHANGED <<inits, mastraInstancePromise>>

\* initializeMastra() runs to its end: the seven agents are created and the
\* Mastra instance constructed, or one of the awaited constructions throws.
initializeMastra(i) ==
    /\ proc \in {"lib", "buffered", "streaming"}
    /\ i \in 1..Len(inits)
    /\ inits[i] = "pending"
    /\ \E outcome \in {"resolved", "rejected"} :
         inits' = [inits EXCEPT ![i] = outcome]
    /\ UNCHANGED <<proc, mastraInstancePromise, callers, lambdaVars, derivationVars, clientVars>>

\* mastra.getAgent(name): the agents registered by initializeMastra.
RegisteredAgents == AWS_AGENT_NAMES

\* A caller of the exported getMastraInstance() makes its call.
CallGetMastraInstance(c) ==
    /\ proc = "lib"
    /\ callers[c].pc = "start"
    /\ getMastraInstance
    /\ callers' = [callers EXCEPT ![c] =
                     [pc |-> "awaiting", promise |-> mastraInstancePromise',
                      got |-> <<"none", 0>>]]
    /\ UNCHANGED <<proc, lambdaVars, derivationVars, clientVars>>

\* The caller's await resumes once the promise it holds has settled.
ResumeCaller(c) ==
    /\ proc = "lib"
    /\ callers[c].pc = "awaiting"
    /\ inits[callers[c].promise] # "pending"
    /\ callers' = [callers EXCEPT ![c] =
                     [pc |-> "done", promise |-> callers[c].promise,
                      got |-> IF inits[callers[c].promise] = "resolved"
                                THEN <<"Mastra", callers[c].promise>>
                                ELSE <<"rejected", callers[c].promise>>]]
    /\ UNCHANGED <<proc, mastraVars, lambdaVars, derivationVars, clientVars>>

-----------------------------------------------------------------------------
(* Events the Lambda handlers receive *)

ThreadIds == {<<"t", "1">>, <<"t", "2">>}
Queries == {<<>>, <<"q">>}
ResourceIds == {<<"r">>}
UnknownAgent == <<"w", "e", "a", "t", "h", "e", "r", "A", "g", "e", "n", "t">>

EventBodies ==
    {NullBody, NotJsonBody}
      \cup {JsonBody(Undefined, Some(t), Some(r), Undefined) :
              t \in ThreadIds, r \in ResourceIds}
      \cup {JsonBody(Some(<<"q">>), Undefined, Some(r), Undefined) : r \in ResourceIds}
      \cup {JsonBody(Some(<<"q">>), Some(t), Undefined, Undefined) : t \in ThreadIds}
      \cup {JsonBody(Some(q), Some(t), Some(r), a) :
              q \in Queries, t \in ThreadIds, r \in ResourceIds,
              a \in {Undefined, Some(UnknownAgent)}
                      \cup {Some(n) : n \in AWS_AGENT_NAMES_WITH_NETWORK}}

NoCall == [made |-> FALSE]
AgentCall(handler, data, threadId, resourceId) ==
    [made |-> TRUE, handler |-> handler, envelope |-> data,
     threadId |-> threadId, resourceId |-> resourceId]

\* An APIGatewayProxyResult: the status code, the message of its JSON body,
\* the other key of that body, and what was caught when there was a catch.
NoResponse == [statusCode |-> 0, message |-> "none", key |-> "none", caught |-> "none"]

\* A new invocation starts: the previous invocation's agent call is kept.
StartInvocation(b) ==
    /\ event' = b
    /\ prevAgentCall' = IF agentCall.made THEN agentCall ELSE prevAgentCall
    /\ writes' = <<>>
    /\ endCalls' = 0
    /\ writesAfterEnd' = 0
    /\ contentType' = "none"

-----------------------------------------------------------------------------
(* src/lambda/buffered.ts: handler *)

\* The thread id the buffered handler hands to generate().
BufferedThreadId(data) == data.threadId

\* Lines 21-28: the answer to an event that fails validation.
InvalidRequestResponse ==
    [statusCode |-> 400, message |-> "Invalid request", key |-> "errors",
     caught |-> "none"]

\* (mutation) the catch block answers with the status of a success
InternalErrorResponse_Status200(caught) ==
    [statusCode |-> 200, message |-> "Internal Server Error", key |-> "error",
     caught |-> caught]

\* Lines 61-72: the answer of the catch block.
InternalErrorResponse(caught) ==
    [statusCode |-> 500, message |-> "Internal Server Error", key |-> "error",
     caught |-> caught]

\* Lines 54-60: the answer that carries the generated text.
GeneratedResponse ==
    [statusCode |-> 200, message |-> "text", key |-> "agent", caught |-> "none"]

\* Lines 16-36: validation; an invalid event is answered 400, a valid one
\* goes on to await getMastraInstance().
BufferedHandle(b) ==
    /\ proc = "buffered"
    /\ hpc = "idle"
    /\ StartInvocation(b)
    /\ agentCall' = NoCall
    /\ IF ~EventBodySchema(b)
         THEN /\ response' = InvalidRequestResponse
              /\ hpc' = "idle"
              /\ heldPromise' = NoPromise
              /\ UNCHANGED mastraVars
         ELSE /\ response' = NoResponse
              /\ getMastraInstance
              /\ heldPromise' = mastraInstancePromise'
              /\ hpc' = "awaitMastra"
    /\ UNCHANGED <<proc, callers, networkBuilds, derivationVars, clientVars>>

\* Lines 36-72: the awaited instance arrives (or the await throws), the agent
\* is looked up and generate() is called.
BufferedDispatch ==
    /\ proc = "buffered"
    /\ hpc = "awaitMastra"
    /\ inits[heldPromise] # "pending"
    /\ LET data == ParsedBody(event)
       IN  IF inits[heldPromise] = "rejected"
             THEN /\ response' = InternalErrorResponse("getMastraInstance")
                  /\ agentCall' = NoCall
             ELSE IF data.agent \notin RegisteredAgents
               THEN /\ response' = InternalErrorResponse("getAgent")
                    /\ agentCall' = NoCall
               ELSE /\ agentCall' = AgentCall("buffered", data, BufferedThreadId(data),
                                              data.resourceId)
                    /\ \E generated \in BOOLEAN :
                         response' = IF generated
                                       THEN GeneratedResponse
                                       ELSE InternalErrorResponse("generate")
    /\ hpc' = "idle"
    /\ UNCHANGED <<proc, mastraVars, callers, event, heldPromise, prevAgentCall,
                   writes, endCalls, writesAfterEnd, contentType, networkBuilds, derivationVars,
                   clientVars>>

-----------------------------------------------------------------------------
(* src/lambda/streaming.ts: handler *)

\* (mutation) the catch block writes the error and leaves the stream open
StreamingCatch_NoEnd(w, e) ==
    /\ writes' = Append(w, "Internal Server Error")
    /\ endCalls' = e
    /\ writesAfterEnd' = IF e > 0 THEN writesAfterEnd + 1 ELSE writesAfterEnd
    /\ hpc' = "idle"

\* The catch block of lines 114-126: the error is written and the stream
\* ended; an end() that throws there rejects the handler.
StreamingCatch(w, e) ==
    /\ writes' = Append(w, "Internal Server Error")
    /\ endCalls' = e + 1
    /\ writesAfterEnd' = IF e > 0 THEN writesAfterEnd + 1 ELSE writesAfterEnd
    /\ hpc' = "idle"

\* Lines 41-66: validation; an invalid event is answered by one written
\* fragment and end(); a valid one sets the content type and dispatches.
StreamingHandle(b) ==
    /\ proc = "streaming"
    /\ hpc = "idle"
    /\ EventBodySchema(b) /\ ParsedBody(b).agent = AWS_AGENT_NETWORK
         => networkBuilds < MaxNetworkBuilds
    /\ event' = b
    /\ prevAgentCall' = IF agentCall.made THEN agentCall ELSE prevAgentCall
    /\ agentCall' = NoCall
    /\ IF ~EventBodySchema(b)
         THEN /\ writes' = <<"Invalid request">>
              /\ endCalls' = 1
              /\ writesAfterEnd' = 0
              /\ contentType' = "none"
              /\ hpc' = "idle"
              /\ heldPromise' = NoPromise
              /\ UNCHANGED mastraVars
         ELSE /\ writes' = <<>>
              /\ endCalls' = 0
              /\ writesAfterEnd' = 0
              /\ contentType' = "text/plain"
              /\ IF ParsedBody(b).agent = AWS_AGENT_NETWORK
                   THEN /\ hpc' = "createNetwork"
                        /\ heldPromise' = NoPromise
                        /\ UNCHANGED mastraVars
                   ELSE /\ getMastraInstance
                        /\ heldPromise' = mastraInstancePromise'
                        /\ hpc' = "awaitMastra"
    /\ UNCHANGED <<proc, callers, response, networkBuilds, derivationVars, clientVars>>

\* Lines 68-79: createAwsAgentNetwork() and network.stream().
StreamingDispatchNetwork ==
    /\ proc = "streaming"
    /\ hpc = "createNetwork"
    /\ networkBuilds' = networkBuilds + 1
    /\ LET data == ParsedBody(event)
       IN  \/ /\ StreamingCatch(writes, endCalls)      \* createAwsAgentNetwork throws
              /\ UNCHANGED agentCall
           \/ /\ agentCall' = AgentCall("streaming", data,
                                        namespacedThreadId(data.agent, data.threadId),
                                        data.resourceId)
              /\ \/ StreamingCatch(writes, endCalls)   \* network.stream throws
                 \/ /\ hpc' = "streaming"
                    /\ UNCHANGED <<writes, endCalls, writesAfterEnd>>
    /\ UNCHANGED <<proc, mastraVars, callers, event, heldPromise, prevAgentCall,
                   response, contentType, derivationVars, clientVars>>

\* Lines 85-105: the awaited instance arrives, the agent is looked up and
\* stream() is called.
StreamingDispatchAgent ==
    /\ proc = "streaming"
    /\ hpc = "awaitMastra"
    /\ inits[heldPromise] # "pending"
    /\ LET data == ParsedBody(event)
       IN  IF inits[heldPromise] = "rejected"
             THEN /\ StreamingCatch(writes, endCalls)
                  /\ UNCHANGED agentCall
             ELSE IF data.agent \notin RegisteredAgents
               THEN \* getAgent throws, or returns undefined and line 93 writes
                    /\ \/ StreamingCatch(writes, endCalls)
                       \/ /\ writes' = Append(writes, "Agent not found")
                          /\ hpc' = "ending"
                          /\ UNCHANGED <<endCalls, writesAfterEnd>>
                    /\ UNCHANGED agentCall
               ELSE /\ agentCall' = AgentCall("streaming", data,
                                              namespacedThreadId(data.agent, data.threadId),
                                              data.resourceId)
                    /\ \/ StreamingCatch(writes, endCalls)   \* stream() throws
                       \/ /\ hpc' = "streaming"
                          /\ UNCHANGED <<writes, endCalls, writesAfterEnd>>
    /\ UNCHANGED <<proc, mastraVars, callers, event, heldPromise, prevAgentCall,
                   response, contentType, networkBuilds, derivationVars, clientVars>>

\* Lines 7-11 and 34-38: the ResponseStream the handler writes to offers
\* setContentType, write and end; the handler sets no status on it and wraps
\* it in nothing that would, so the Function URL answers every invocation
\* with the status of a streamed response without a prelude.
StreamedStatusCode == 200

\* The Response the client's fetch() resolves to for the invocation in hand.
StreamedHttpResponse ==
    [ok |-> StreamedStatusCode \in 200..299, hasBody |-> TRUE, json |-> FALSE,
     received |-> TRUE]

ChunksWritten == Cardinality({i \in 1..Len(writes) : writes[i] = "chunk"})

\* Lines 81-83 and 107-109: one turn of for await (const chunk of textStream).
StreamingWriteChunk ==
    /\ proc = "streaming"
    /\ hpc = "streaming"
    /\ \/ /\ ChunksWritten < MaxChunks
          /\ writes' = Append(writes, "chunk")
          /\ UNCHANGED <<hpc, endCalls, writesAfterEnd>>
       \/ /\ hpc' = "ending"                       \* the text stream is exhausted
          /\ UNCHANGED <<writes, endCalls, writesAfterEnd>>
       \/ StreamingCatch(writes, endCalls)         \* the text stream throws
    /\ UNCHANGED <<proc, mastraVars, callers, event, heldPromise, agentCall,
                   prevAgentCall, response, contentType, networkBuilds, derivationVars,
                   clientVars>>

\* Line 113: await responseStream.end(); when it throws the catch block runs.
StreamingEnd ==
    /\ proc = "streaming"
    /\ hpc = "ending"
    /\ \/ /\ endCalls' = endCalls + 1
          /\ hpc' = "idle"
          /\ UNCHANGED <<writes, writesAfterEnd>>
       \/ StreamingCatch(writes, endCalls + 1)
    /\ UNCHANGED <<proc, mastraVars, callers, event, heldPromise, agentCall,
                   prevAgentCall, response, contentType, networkBuilds, derivationVars,
                   clientVars>>

-----------------------------------------------------------------------------
(* Text and its UTF-8 encoding.  "a" is a one-byte character (byte 61),    *)
(* "u00E9" a two-byte character (bytes C3 A9), "uFFFD" the replacement     *)
(* character a decoder emits for a malformed sequence.                     *)

TextChars == {"a", "u00E9"}

RECURSIVE Texts(_)
Texts(n) ==
    IF n = 0 THEN {<<>>}
    ELSE Texts(n - 1) \cup {Append(t, ch) : t \in Texts(n - 1), ch \in TextChars}

RECURSIVE Encode(_)
Encode(text) ==
    IF text = <<>> THEN <<>>
    ELSE (IF Head(text) = "a" THEN <<"61">> ELSE <<"C3", "A9">>) \o Encode(Tail(text))

\* The WHATWG UTF-8 decoder over the bytes of one chunk, entered with the
\* bytes held back from the chunk before.
RECURSIVE DecodeBytes(_, _, _)
DecodeBytes(pending, bytes, out) ==
    IF bytes = <<>> THEN [text |-> out, pending |-> pending]
    ELSE LET b == Head(bytes)
         IN  IF pending # <<>>
               THEN IF b = "A9"
                      THEN DecodeBytes(<<>>, Tail(bytes), Append(out, "u00E9"))
                      ELSE DecodeBytes(<<>>, bytes, Append(out, "uFFFD"))
               ELSE IF b = "C3" THEN DecodeBytes(<<b>>, Tail(bytes), out)
               ELSE IF b = "A9" THEN DecodeBytes(<<>>, Tail(bytes), Append(out, "uFFFD"))
               ELSE DecodeBytes(<<>>, Tail(bytes), Append(out, "a"))

\* (mutation) decoder.decode(value) without { stream: true }: an incomplete
\* sequence at the end of the chunk is flushed as a replacement character.
Decode_NoStream(pending, chunk) ==
    LET d == DecodeBytes(pending, chunk, <<>>)
    IN  [text |-> IF d.pending = <<>> THEN d.text ELSE Append(d.text, "uFFFD"),
         pending |-> <<>>]

\* decoder.decode(value, { stream: true })
Decode(pending, chunk) == DecodeBytes(pending, chunk, <<>>)

RECURSIVE Concat(_)
Concat(fragments) ==
    IF fragments = <<>> THEN <<>> ELSE Head(fragments) \o Concat(Tail(fragments))

IsPrefix(p, t) == Len(p) <= Len(t) /\ SubSeq(t, 1, Len(p)) = p

-----------------------------------------------------------------------------
(* What the transport invokers share *)

NoResponseYet == [ok |-> FALSE, hasBody |-> FALSE, json |-> FALSE, received |-> FALSE]

\* The object a JSON body parses to: its message and agent properties, each
\* absent or a string.
NoResponseBody == [message |-> Undefined, agent |-> Undefined]

\* The Responses fetch() can resolve to: a 2xx or non-2xx status, with or
\* without a body; the body's bytes encode a text.
HttpResponses ==
    [ok : BOOLEAN, hasBody : BOOLEAN, json : BOOLEAN, received : {TRUE}]

TransportIdle ==
    /\ tpc' = "idle"
    /\ terror' = "none"
    /\ fetchCalls' = 0
    /\ httpResponse' = NoResponseYet
    /\ bodyText' = <<>>
    /\ remaining' = <<>>
    /\ decoderPending' = <<>>
    /\ accumulatedResponse' = <<>>
    /\ onChunkCalls' = <<>>
    /\ written' = <<>>
    /\ responseBody' = NoResponseBody
    /\ readers' = 0
    /\ readCalls' = 0
    /\ handed' = 0

\* An invoker is entered at position p with everything else reset.
TransportEnter(p) ==
    /\ tpc' = p
    /\ terror' = "none"
    /\ fetchCalls' = 0
    /\ httpResponse' = NoResponseYet
    /\ bodyText' = <<>>
    /\ remaining' = <<>>
    /\ decoderPending' = <<>>
    /\ accumulatedResponse' = <<>>
    /\ onChunkCalls' = <<>>
    /\ written' = <<>>
    /\ responseBody' = NoResponseBody
    /\ readers' = 0
    /\ readCalls' = 0
    /\ handed' = 0

\* response.body.getReader() and the first reader.read() of the loop, when
\* the response was accepted.
ReaderStarts(accepted) ==
    IF accepted
      THEN /\ readers' = readers + 1
           /\ readCalls' = readCalls + 1
           /\ UNCHANGED handed
      ELSE UNCHANGED readerVars

\* (mutation) the loop asks for two more chunks whenever it has handed one on
FragmentHanded_ReadsAhead ==
    /\ handed' = handed + 1
    /\ readCalls' = readCalls + 2
    /\ UNCHANGED readers

\* The body of the read loop after a chunk arrived: the decoded fragment is
\* handed to the caller, and only then the loop comes round to its next
\* reader.read().
FragmentHanded ==
    /\ handed' = handed + 1
    /\ readCalls' = readCalls + 1
    /\ UNCHANGED readers

TransportFails(why) ==
    /\ tpc' = "failed"
    /\ terror' = why

\* fetch() resolves to response r whose body carries text t.
FetchResolves(r, t) ==
    /\ httpResponse' = r
    /\ bodyText' = IF r.hasBody THEN t ELSE <<>>
    /\ remaining' = IF r.hasBody THEN Encode(t) ELSE <<>>

-----------------------------------------------------------------------------
(* The MCP proxy: signRequest and invokeStreamingRequest *)

ProxyResourcePrefix ==
    <<"r", "e", "m", "o", "t", "e", "P", "r", "o", "x", "y", "-", "t", "o", "o", "l", "-">>

\* (mutation) the resource id is derived from the session id and the agent
ProxyRequestBody_ResourcePerAgent(in) ==
    [query |-> in.query, agent |-> in.agent, threadId |-> in.sessionId,
     resourceId |-> ProxyResourcePrefix \o in.sessionId \o <<"-">> \o in.agent]

\* Lines 675-682 of runRemoteAgentProxy: the request body, handed unchanged
\* to invokeStreamingRequest and by it to fetch().
ProxyRequestBody(in) ==
    [query |-> in.query, agent |-> in.agent, threadId |-> in.sessionId,
     resourceId |-> ProxyResourcePrefix \o in.sessionId]

\* (mutation) the status is not looked at before the body is read
ProxyResponseRejected_NoStatusCheck(r) == ~r.hasBody

\* Line 595: if (!response.ok || !response.body)
ProxyResponseRejected(r) == ~r.ok \/ ~r.hasBody

\* Lines 577-583: signRequest(); new URL() or the signer may throw.
ProxySign ==
    /\ proc = "mcpProxy"
    /\ tpc = "signing"
    /\ \/ tpc' = "fetching" /\ UNCHANGED terror
       \/ TransportFails("sign")
    /\ UNCHANGED <<proc, serverVars, derivationVars, cliVars, lookupVars, proxyVars,
                   fetchCalls, httpResponse, bodyText, remaining, decoderPending,
                   accumulatedResponse, onChunkCalls, written, responseBody, readerVars>>

\* (mutation) a request that fails on the network is sent once more
ProxyFetch_RetriesOnNetworkError ==
    /\ proc = "mcpProxy"
    /\ tpc = "fetching"
    /\ fetchCalls' = fetchCalls + 1
    /\ \/ /\ IF fetchCalls = 0 THEN UNCHANGED <<tpc, terror>>
                               ELSE TransportFails("network")
          /\ UNCHANGED <<httpResponse, bodyText, remaining>>
       \/ \E r \in HttpResponses, t \in Texts(MaxTextLen) :
            /\ FetchResolves(r, t)
            /\ IF ~r.ok \/ ~r.hasBody
                 THEN TransportFails("status")
                 ELSE tpc' = "reading" /\ UNCHANGED terror
    /\ proxySent' = proxySent \cup {ProxyRequestBody(input)}
    /\ UNCHANGED <<proc, serverVars, derivationVars, cliVars, lookupVars,
                   ppc, input, toolResult, invocations, lookupCalls,
                   decoderPending, accumulatedResponse, onChunkCalls, written, responseBody>>
    /\ ReaderStarts(tpc' = "reading")

\* Lines 585-601: fetch() and the check of the response.
ProxyFetch ==
    /\ proc = "mcpProxy"
    /\ tpc = "fetching"
    /\ fetchCalls' = fetchCalls + 1
    /\ \/ /\ TransportFails("network")
          /\ UNCHANGED <<httpResponse, bodyText, remaining>>
       \/ \E r \in HttpResponses, t \in Texts(MaxTextLen) :
            /\ FetchResolves(r, t)
            /\ IF ProxyResponseRejected(r)
                 THEN TransportFails("status")
                 ELSE tpc' = "reading" /\ UNCHANGED terror
    /\ proxySent' = proxySent \cup {ProxyRequestBody(input)}
    /\ UNCHANGED <<proc, serverVars, derivationVars, cliVars, lookupVars,
                   ppc, input, toolResult, invocations, lookupCalls,
                   decoderPending, accumulatedResponse, onChunkCalls, written, responseBody>>
    /\ ReaderStarts(tpc' = "reading")

\* (mutation) the read loop is left before the source has signalled its end
ProxyRead_BreaksEarly ==
    /\ proc = "mcpProxy"
    /\ tpc = "reading"
    /\ \/ /\ tpc' = "done"
          /\ UNCHANGED <<terror, remaining, decoderPending, accumulatedResponse,
                         readerVars>>
       \/ \E n \in 1..Len(remaining) :
            LET d == Decode(decoderPending, SubSeq(remaining, 1, n))
            IN  /\ accumulatedResponse' = accumulatedResponse \o d.text
                /\ decoderPending' = d.pending
                /\ remaining' = SubSeq(remaining, n + 1, Len(remaining))
                /\ FragmentHanded
                /\ UNCHANGED <<tpc, terror>>
       \/ /\ TransportFails("read")
          /\ UNCHANGED <<remaining, decoderPending, accumulatedResponse, readerVars>>
    /\ UNCHANGED <<proc, serverVars, derivationVars, cliVars, lookupVars, proxyVars,
                   fetchCalls, httpResponse, bodyText, onChunkCalls, written, responseBody>>

\* Lines 607-621: one turn of the read loop.
ProxyRead ==
    /\ proc = "mcpProxy"
    /\ tpc = "reading"
    /\ \/ /\ remaining = <<>>                        \* chunkResult.done
          /\ tpc' = "done"
          /\ UNCHANGED <<terror, remaining, decoderPending, accumulatedResponse,
                         readerVars>>
       \/ \E n \in 1..Len(remaining) :               \* a chunk of n bytes arrives
            LET d == Decode(decoderPending, SubSeq(remaining, 1, n))
            IN  /\ accumulatedResponse' = accumulatedResponse \o d.text
                /\ decoderPending' = d.pending
                /\ remaining' = SubSeq(remaining, n + 1, Len(remaining))
                /\ FragmentHanded
                /\ UNCHANGED <<tpc, terror>>
       \/ /\ TransportFails("read")                  \* reader.read() rejects
          /\ UNCHANGED <<remaining, decoderPending, accumulatedResponse, readerVars>>
    /\ UNCHANGED <<proc, serverVars, derivationVars, cliVars, lookupVars, proxyVars,
                   fetchCalls, httpResponse, bodyText, onChunkCalls, written, responseBody>>

-----------------------------------------------------------------------------
(* The MCP proxy: the CallTool handler and runRemoteAgentProxy *)

FunctionUrl == <<"h", "t", "t", "p", "s", ":", "/", "/", "f">>
OverrideUrl == <<"h", "t", "t", "p", "s", ":", "/", "/", "o">>
SessionIds == {<<"s", "1">>}
Digits == <<"1", "2", "3", "4", "5", "6", "7", "8", "9">>

\* nanoid(): the n-th identifier generated in this process.
nanoid(n) == <<"i", "d", Digits[n]>>

toolName == "remoteAgentProxy"

\* req.params of a CallTool request.
ToolArguments(q, sid, override, agent) ==
    [query |-> q, sessionId |-> sid, lambdaFunctionUrlOverride |-> override,
     agent |-> agent]

CallToolRequests ==
    {[name |-> "otherTool", arguments |-> ToolArguments(Some(<<"q">>), Undefined, Undefined, Undefined)],
     [name |-> toolName, arguments |-> ToolArguments(Undefined, Some(<<"s", "1">>), Undefined, Undefined)],
     [name |-> toolName, arguments |-> ToolArguments(Some(<<"q">>), Undefined, Undefined, Some(UnknownAgent))]}
      \cup {[name |-> toolName, arguments |-> ToolArguments(Some(q), sid, o, a)] :
              q \in {<<>>, <<" ">>, <<"q">>},
              sid \in {Undefined} \cup {Some(x) : x \in SessionIds},
              o \in {Undefined, Some(<<>>), Some(OverrideUrl)},
              a \in {Undefined, Some(S3_AGENT)}}

\* remoteAgentProxyInputSchema accepts the arguments.
InputSchemaAccepts(a) ==
    /\ a.query # Undefined
    /\ a.agent # Undefined => ValueOf(a.agent) \in AWS_AGENT_NAMES_WITH_NETWORK

\* remoteAgentProxyInputSchema.parse(): agent and sessionId defaulted.
ParsedInput(a, n) ==
    [query |-> ValueOf(a.query),
     agent |-> IF a.agent = Undefined THEN AWS_AGENT ELSE ValueOf(a.agent),
     sessionId |-> IF a.sessionId = Undefined THEN nanoid(n) ELSE ValueOf(a.sessionId),
     lambdaFunctionUrlOverride |-> a.lambdaFunctionUrlOverride]

NoInput == ParsedInput(ToolArguments(Some(<<>>), Some(<<>>), Undefined, Undefined), 1)

\* query.trim() is empty
IsBlank(q) == \A i \in 1..Len(q) : q[i] = " "

\* An optional string is truthy when it is present and not empty.
Truthy(o) == o # Undefined /\ ValueOf(o) # <<>>

\* No signed call in hand.
NoUrl == [hostname |-> <<>>, pathname |-> <<>>, search |-> <<>>]
NoSignedCall == [invoker |-> "none", endpoint |-> NoUrl, method |-> "none", body |-> <<>>]
NoHttpRequest == [method |-> "none", host |-> <<>>, path |-> <<>>, query |-> <<>>,
                  body |-> <<>>, headers |-> {}]
NotSigned == [pc |-> "idle", signed |-> NoHttpRequest, sent |-> NoHttpRequest]

\* streamToString not called: no stream in hand, no call in progress.
NoStream == [kind |-> "none", chunks |-> <<>>, maxSize |-> 0, fails |-> FALSE]
Pending == [state |-> "pending", content |-> <<>>, truncated |-> FALSE]
NotCalled == [pc |-> "idle", rest |-> <<>>, chunks |-> <<>>, totalSize |-> 0,
              truncated |-> FALSE, destroyed |-> FALSE, promise |-> Pending]

\* What the CallTool handler returns: the JSON text of { output, sessionId },
\* or of an error object that has no sessionId, or nothing (it throws).
NoToolResult ==
    [kind |-> "none", message |-> "none", text |-> <<>>, sessionId |-> Undefined]
ProxyResult(message, text, sid) ==
    [kind |-> "result", message |-> message, text |-> text, sessionId |-> Some(sid)]
ErrorContent(message) ==
    [kind |-> "error", message |-> message, text |-> <<>>, sessionId |-> Undefined]
Thrown ==
    [kind |-> "thrown", message |-> "Tool not found", text |-> <<>>, sessionId |-> Undefined]

\* Lines 744-755: the request is received and its arguments validated.
CallTool(req) ==
    /\ proc = "mcpProxy"
    /\ ppc = "idle"
    /\ invocations < MaxInvocations
    /\ invocations' = invocations + 1
    /\ lookupCalls' = 0
    /\ TransportIdle
    /\ IF req.name # toolName
         THEN /\ toolResult' = Thrown
              /\ input' = NoInput
              /\ ppc' = "idle"
         ELSE IF ~InputSchemaAccepts(req.arguments)
           THEN /\ toolResult' = ErrorContent("Invalid request")
                /\ input' = NoInput
                /\ ppc' = "idle"
           ELSE /\ toolResult' = NoToolResult
                /\ input' = ParsedInput(req.arguments, invocations + 1)
                /\ ppc' = "credentials"
    /\ UNCHANGED <<proc, serverVars, derivationVars, cliVars, lookupVars, proxySent>>

\* Lines 632-673 up to the lookup: the credentials are awaited outside the
\* try block; then the query and the override are looked at.
ProxyCredentials ==
    /\ proc = "mcpProxy"
    /\ ppc = "credentials"
    /\ \/ /\ toolResult' = ErrorContent("Error executing request")
          /\ ppc' = "idle"
          /\ UNCHANGED transportVars
       \/ IF IsBlank(input.query)
            THEN /\ toolResult' = ProxyResult("Please provide a query", <<>>, input.sessionId)
                 /\ ppc' = "idle"
                 /\ UNCHANGED transportVars
            ELSE IF Truthy(input.lambdaFunctionUrlOverride)
              THEN /\ ppc' = "invoking"
                   /\ TransportEnter("signing")
                   /\ UNCHANGED toolResult
              ELSE /\ ppc' = "lookup"
                   /\ UNCHANGED <<toolResult, transportVars>>
    /\ UNCHANGED <<proc, serverVars, derivationVars, cliVars, lookupVars, input,
                   invocations, lookupCalls, proxySent>>

StreamingFunctionUrlEndpoint == "StreamingFunctionUrlEndpoint"
ApiEndpoint == "ApiEndpoint"

\* How a DescribeStacks lookup of an output key can go: the stack has the
\* output, the stack has no such output, or the call itself fails.
LookupOutcomes == {"found", "absent", "failed"}

NoLookup == [outcome |-> "none", gave |-> "none"]

\* Lines 488-521: getCfnOutput() returns the output's value, returns
\* undefined when the output is absent, and throws when the call fails.
getCfnOutput(outcome) ==
    CASE outcome = "found" -> "url"
      [] outcome = "absent" -> "undefined"
      [] outcome = "failed" -> "thrown"

\* One DescribeStacks lookup of output key k is made; outcome says how it
\* went and gave what the looking-up function handed to its caller.
LookupMade(k, outcome, gave) ==
    /\ lookups' = [lookups EXCEPT ![k] = @ + 1]
    /\ resolvedKeys' = IF gave = "url" THEN resolvedKeys \cup {k} ELSE resolvedKeys
    /\ lookupResults' = [lookupResults EXCEPT ![k] = [outcome |-> outcome, gave |-> gave]]

\* Lines 646-673: getCfnOutput() returns the URL, returns undefined or throws.
ProxyLookup ==
    /\ proc = "mcpProxy"
    /\ ppc = "lookup"
    /\ lookupCalls' = lookupCalls + 1
    /\ \E outcome \in LookupOutcomes :
         LET gave == getCfnOutput(outcome)
         IN  /\ LookupMade(StreamingFunctionUrlEndpoint, outcome, gave)
             /\ IF gave = "url"
                  THEN /\ ppc' = "invoking"
                       /\ TransportEnter("signing")
                       /\ UNCHANGED toolResult
                  ELSE /\ toolResult' =
                            ProxyResult(IF gave = "thrown"
                                          THEN "Failed to get Lambda Function URL"
                                          ELSE "Lambda Function URL not found",
                                        <<>>, input.sessionId)
                       /\ ppc' = "idle"
                       /\ UNCHANGED transportVars
    /\ UNCHANGED <<proc, serverVars, derivationVars, cliVars, input, invocations,
                   proxySent>>

\* Lines 688-703: invokeStreamingRequest() has returned or thrown.
ProxyReturn ==
    /\ proc = "mcpProxy"
    /\ ppc = "invoking"
    /\ tpc \in {"done", "failed"}
    /\ toolResult' = IF tpc = "done"
                       THEN ProxyResult("responseText", accumulatedResponse, input.sessionId)
                       ELSE ProxyResult("Error invoking remote agent", <<>>, input.sessionId)
    /\ ppc' = "idle"
    /\ UNCHANGED <<proc, serverVars, derivationVars, cliVars, lookupVars, input,
                   invocations, lookupCalls, proxySent, transportVars>>

-----------------------------------------------------------------------------
(* scripts/utils/invoke-api-utils.ts: the CLI's transport invokers.        *)
(* The streaming invoker passes through "credentials", "signing",          *)
(* "fetching" and "reading"; the buffered one through "apiCredentials",    *)
(* "apiSigning" and "apiFetching".                                         *)

\* Lines 69-101: getFunctionUrl() returns the output's value, and undefined
\* when the output is absent; its catch block returns undefined too.
getFunctionUrl(outcome) == IF outcome = "found" THEN "url" ELSE "undefined"

\* Lines 32-64: getApiEndpoint(), likewise.
getApiEndpoint(outcome) == IF outcome = "found" THEN "url" ELSE "undefined"

\* Line 200: if (!response.ok)
UtilResponseRejected(r) == ~r.ok

\* The objects response.json() can resolve to: with or without a message
\* (which may be the empty string), with or without an agent.
JsonObjects ==
    [message : {Undefined, Some(<<>>), Some(<<"a">>)},
     agent : {Undefined, Some(S3_AGENT)}]

\* Lines 109-110 and 162-167: the credential provider resolves or throws.
UtilCredentials ==
    /\ proc = "chatCli"
    /\ tpc \in {"credentials", "apiCredentials"}
    /\ \/ /\ tpc' = IF tpc = "credentials" THEN "signing" ELSE "apiSigning"
          /\ UNCHANGED terror
       \/ TransportFails("credentials")
    /\ UNCHANGED <<proc, serverVars, derivationVars, cliVars, lookupVars, proxyVars,
                   fetchCalls, httpResponse, bodyText, remaining, decoderPending,
                   accumulatedResponse, onChunkCalls, written, responseBody, readerVars>>

\* Lines 113-134 and 170-191: new URL() and signer.sign(); either may throw.
UtilSign ==
    /\ proc = "chatCli"
    /\ tpc \in {"signing", "apiSigning"}
    /\ \/ /\ tpc' = IF tpc = "signing" THEN "fetching" ELSE "apiFetching"
          /\ UNCHANGED terror
       \/ TransportFails("sign")
    /\ UNCHANGED <<proc, serverVars, derivationVars, cliVars, lookupVars, proxyVars,
                   fetchCalls, httpResponse, bodyText, remaining, decoderPending,
                   accumulatedResponse, onChunkCalls, written, responseBody, readerVars>>

\* Lines 137-150: invokeSignedApiRequest's fetch(), response.json() and the
\* status check.
ApiFetch ==
    /\ proc = "chatCli"
    /\ tpc = "apiFetching"
    /\ fetchCalls' = fetchCalls + 1
    /\ \/ /\ TransportFails("network")
          /\ UNCHANGED <<httpResponse, bodyText, remaining, responseBody>>
       \/ \E r \in HttpResponses, body \in JsonObjects :
            /\ FetchResolves(r, <<>>)
            /\ IF ~r.hasBody \/ ~r.json
                 THEN /\ body = NoResponseBody
                      /\ TransportFails("json")
                      /\ UNCHANGED responseBody
                 ELSE /\ responseBody' = body
                      /\ IF ~r.ok THEN TransportFails("status")
                         ELSE tpc' = "done" /\ UNCHANGED terror
    /\ sentIds' = sentIds \cup {<<requestBody.threadId, requestBody.resourceId>>}
    /\ UNCHANGED <<proc, serverVars, derivationVars, lookupVars, proxyVars,
                   cpc, config, state, requestBody, printed,
                   decoderPending, accumulatedResponse, onChunkCalls, written, readerVars>>

\* Lines 194-209: invokeStreamingRequest's fetch() and its two checks.
UtilFetch ==
    /\ proc = "chatCli"
    /\ tpc = "fetching"
    /\ fetchCalls' = fetchCalls + 1
    /\ \/ /\ TransportFails("network")
          /\ UNCHANGED <<httpResponse, bodyText, remaining>>
       \/ \E r \in HttpResponses, t \in Texts(MaxTextLen) :
            /\ FetchResolves(r, t)
            /\ IF UtilResponseRejected(r) THEN TransportFails("status")
               ELSE IF ~r.hasBody THEN TransportFails("nobody")
               ELSE tpc' = "reading" /\ UNCHANGED terror
    /\ sentIds' = sentIds \cup {<<requestBody.threadId, requestBody.resourceId>>}
    /\ UNCHANGED <<proc, serverVars, derivationVars, lookupVars, proxyVars,
                   cpc, config, state, requestBody, printed,
                   decoderPending, accumulatedResponse, onChunkCalls, written, responseBody>>
    /\ ReaderStarts(tpc' = "reading")

\* String.prototype.trim() over texts whose only white space is " ".
RECURSIVE TrimStart(_)
TrimStart(t) ==
    IF t # <<>> /\ Head(t) = " " THEN TrimStart(Tail(t)) ELSE t

RECURSIVE TrimEnd(_)
TrimEnd(t) ==
    IF t # <<>> /\ t[Len(t)] = " " THEN TrimEnd(SubSeq(t, 1, Len(t) - 1)) ELSE t

Trim(t) == TrimEnd(TrimStart(t))

\* JSON.parse(chunk) succeeds.  Of the texts over the characters modelled
\* ("a", "u00E9", " " and the digit "1") the JSON texts are the numbers: one
\* or more digits with optional white space around them.
ParsesAsJson(chunk) ==
    /\ Trim(chunk) # <<>>
    /\ \A i \in 1..Len(Trim(chunk)) : Trim(chunk)[i] = "1"

\* scripts/interactive-chat.ts lines 352-375, handleStreamingChunk(): what it
\* writes to stdout for a chunk.  A chunk that parses as JSON (here a
\* number, which has neither statusCode nor message) is written as
\* JSON.stringify of the parsed value; any other chunk is written as it is
\* when chunk.trim() is not empty, and not written otherwise.
handleStreamingChunk(chunk) ==
    IF ParsesAsJson(chunk) THEN Trim(chunk)
    ELSE IF Trim(chunk) # <<>> THEN chunk
    ELSE <<>>

\* Lines 216-233: one turn of the read loop.
UtilRead ==
    /\ proc = "chatCli"
    /\ tpc = "reading"
    /\ \/ /\ remaining = <<>>                        \* done
          /\ tpc' = "done"
          /\ UNCHANGED <<terror, remaining, decoderPending, onChunkCalls, written, readerVars>>
       \/ \E n \in 1..Len(remaining) :               \* a chunk of n bytes arrives
            LET d == Decode(decoderPending, SubSeq(remaining, 1, n))
            IN  /\ onChunkCalls' = Append(onChunkCalls, d.text)
                /\ written' = written \o handleStreamingChunk(d.text)
                /\ decoderPending' = d.pending
                /\ remaining' = SubSeq(remaining, n + 1, Len(remaining))
                /\ FragmentHanded
                /\ UNCHANGED <<tpc, terror>>
       \/ /\ TransportFails("read")                  \* reader.read() rejects
          /\ UNCHANGED <<remaining, decoderPending, onChunkCalls, written, readerVars>>
    /\ UNCHANGED <<proc, serverVars, derivationVars, cliVars, lookupVars, proxyVars,
                   fetchCalls, httpResponse, bodyText, accumulatedResponse, responseBody>>

-----------------------------------------------------------------------------
(* scripts/interactive-chat.ts: configuration *)

ApiUrl == <<"h", "t", "t", "p", "s", ":", "/", "/", "a">>
EndpointArg == <<"h", "t", "t", "p", "s", ":", "/", "/", "e">>

\* The command line: --endpoint, --streaming, --session-id, --query.
CliArgs ==
    [endpoint : {Undefined, Some(EndpointArg)},
     streaming : BOOLEAN,
     sessionId : {Undefined} \cup {Some(x) : x \in SessionIds},
     query : {Undefined, Some(<<"q">>)}]

NoConfig ==
    [loaded |-> FALSE, endpointArg |-> Undefined, apiGatewayEndpoint |-> Undefined,
     lambdaFunctionUrl |-> Undefined, initialUseStreaming |-> FALSE,
     sessionId |-> <<>>, singleQuery |-> Undefined]

NoState == [currentAgent |-> AWS_AGENT, useStreaming |-> FALSE]

NoRequestBody == [query |-> <<>>, threadId |-> <<>>, resourceId |-> <<>>, agent |-> <<>>]

\* What an invocation printed as its outcome: nothing yet, the agent's
\* response, the end of a streamed response, or the report of an error.
NoPrint == [kind |-> "none", text |-> <<>>]

\* Line 180: argv.sessionId || `chat-${Date.now()}`
ChatSessionId(arg) ==
    IF Truthy(arg) THEN ValueOf(arg) ELSE <<"c", "h", "a", "t", "-", "1">>

\* Lines 164-274: loadAndValidateConfig().  urlOutcome is how the lookup
\* getFunctionUrl() makes goes, apiOutcome how the one getApiEndpoint() makes
\* goes when it is called.
loadAndValidateConfig(argv, urlOutcome, apiOutcome) ==
    LET functionUrl == IF getFunctionUrl(urlOutcome) = "url"
                         THEN Some(FunctionUrl) ELSE Undefined
        apiEndpoint == IF getApiEndpoint(apiOutcome) = "url"
                         THEN Some(ApiUrl) ELSE Undefined
        useStreaming == argv.streaming /\ Truthy(functionUrl)
        fetchApi == ~Truthy(argv.endpoint) /\ ~useStreaming
        api == IF fetchApi THEN apiEndpoint ELSE argv.endpoint
        exits == \/ fetchApi /\ ~Truthy(apiEndpoint)
                 \/ ~Truthy(functionUrl) /\ ~Truthy(api)
    IN  /\ proc = "chatCli"
        /\ cpc = "start"
        /\ fetchApi \/ apiOutcome = "absent"
        /\ lookups' = [lookups EXCEPT
                         ![StreamingFunctionUrlEndpoint] = @ + 1,
                         ![ApiEndpoint] = IF fetchApi THEN @ + 1 ELSE @]
        /\ resolvedKeys' =
             resolvedKeys
               \cup (IF Truthy(functionUrl) THEN {StreamingFunctionUrlEndpoint} ELSE {})
               \cup (IF fetchApi /\ Truthy(apiEndpoint) THEN {ApiEndpoint} ELSE {})
        /\ lookupResults' =
             [lookupResults EXCEPT
                ![StreamingFunctionUrlEndpoint] =
                   [outcome |-> urlOutcome, gave |-> getFunctionUrl(urlOutcome)],
                ![ApiEndpoint] =
                   IF fetchApi
                     THEN [outcome |-> apiOutcome, gave |-> getApiEndpoint(apiOutcome)]
                     ELSE @]
        /\ config' = [loaded |-> TRUE,
                      endpointArg |-> argv.endpoint,
                      apiGatewayEndpoint |-> api,
                      lambdaFunctionUrl |-> functionUrl,
                      initialUseStreaming |-> useStreaming,
                      sessionId |-> ChatSessionId(argv.sessionId),
                      singleQuery |-> argv.query]
        /\ state' = [currentAgent |-> AWS_AGENT, useStreaming |-> useStreaming]
        /\ cpc' = IF exits THEN "exited"
                  ELSE IF Truthy(argv.query) THEN "single" ELSE "prompt"
        /\ UNCHANGED <<proc, serverVars, derivationVars, proxyVars, transportVars,
                       requestBody, sentIds, printed>>

-----------------------------------------------------------------------------
(* scripts/interactive-chat.ts: queries and commands *)

ThreadPrefix == <<"t", "h", "r", "e", "a", "d", "-">>
ResourcePrefix == <<"r", "e", "s", "o", "u", "r", "c", "e", "-">>

\* (mutation) the thread id is derived from the session id and the agent
RequestBody_ThreadPerAgent(query, sessionId, agent) ==
    [query |-> query,
     threadId |-> ThreadPrefix \o sessionId \o <<"-">> \o agent,
     resourceId |-> ResourcePrefix \o sessionId,
     agent |-> agent]

\* Lines 581-586 and 292-297: the request body.
RequestBody(query, sessionId, agent) ==
    [query |-> query,
     threadId |-> ThreadPrefix \o sessionId,
     resourceId |-> ResourcePrefix \o sessionId,
     agent |-> agent]

\* Lines 576-626: the request body is built, the transport chosen and its
\* invoker entered.
invokeAgent(query) ==
    LET body == RequestBody(query, config.sessionId, state.currentAgent)
    IN  IF state.useStreaming /\ Truthy(config.lambdaFunctionUrl)
          THEN /\ cpc' = "streamingCall"
               /\ TransportEnter("credentials")
               /\ printed' = NoPrint
               /\ requestBody' = body
          ELSE IF Truthy(config.apiGatewayEndpoint)
            THEN /\ cpc' = "apiCall"
                 /\ TransportEnter("apiCredentials")
                 /\ printed' = NoPrint
                 /\ requestBody' = body
            ELSE /\ cpc' = "prompt"
                 /\ TransportIdle
                 /\ printed' = [kind |-> "error", text |-> <<>>]
                 /\ requestBody' = NoRequestBody

\* Lines 277-331: executeSingleQuery() sends the query given by --query to
\* config.initialAgent.
ExecuteSingleQuery ==
    /\ proc = "chatCli"
    /\ cpc = "single"
    /\ requestBody' = RequestBody(ValueOf(config.singleQuery), config.sessionId, AWS_AGENT)
    /\ IF config.initialUseStreaming /\ Truthy(config.lambdaFunctionUrl)
         THEN cpc' = "streamingCall" /\ TransportEnter("credentials") /\ printed' = NoPrint
         ELSE IF Truthy(config.apiGatewayEndpoint)
           THEN cpc' = "apiCall" /\ TransportEnter("apiCredentials") /\ printed' = NoPrint
           ELSE /\ cpc' = "exited"
                /\ TransportIdle
                /\ printed' = [kind |-> "error", text |-> <<>>]
    /\ UNCHANGED <<proc, serverVars, derivationVars, lookupVars, proxyVars,
                   config, state, sentIds>>

aliasToAgent ==
    [cf |-> CLOUDFORMATION_AGENT, cfn |-> CLOUDFORMATION_AGENT,
     cloudformation |-> CLOUDFORMATION_AGENT, cp |-> CODEPIPELINE_AGENT,
     codepipeline |-> CODEPIPELINE_AGENT, cw |-> CLOUDWATCHLOGS_AGENT,
     cwl |-> CLOUDWATCHLOGS_AGENT, logs |-> CLOUDWATCHLOGS_AGENT,
     cloudwatch |-> CLOUDWATCHLOGS_AGENT, lambda |-> LAMBDA_AGENT,
     dynamodb |-> DYNAMODB_AGENT, s3 |-> S3_AGENT, net |-> AWS_AGENT_NETWORK,
     network |-> AWS_AGENT_NETWORK, aws |-> AWS_AGENT]

\* What the user types at the prompt: a query, or a slash command with its
\* argument (an alias, for /agent).
UserInputs ==
    {[command |-> "query", arg |-> "q"],
     [command |-> "capabilities", arg |-> "c"],
     [command |-> "agent", arg |-> ""],
     [command |-> "agent", arg |-> "weather"],
     [command |-> "streaming", arg |-> ""],
     [command |-> "help", arg |-> ""],
     [command |-> "session", arg |-> ""],
     [command |-> "unknown", arg |-> ""],
     [command |-> "exit", arg |-> ""]}
      \cup {[command |-> "agent", arg |-> a] : a \in {"s3", "aws", "network"}}

\* Lines 417-505: processCommand().
processCommand(in) ==
    CASE in.command \in {"query", "capabilities"} -> [type |-> "query", query |-> <<in.arg>>]
      [] in.command = "exit" -> [type |-> "exit"]
      [] in.command = "agent" ->
           IF in.arg = "" THEN [type |-> "error"]
           ELSE IF in.arg \notin DOMAIN aliasToAgent THEN [type |-> "error"]
           ELSE IF aliasToAgent[in.arg] # state.currentAgent
             THEN [type |-> "switchAgent", agent |-> aliasToAgent[in.arg]]
             ELSE [type |-> "continue"]
      [] in.command = "streaming" ->
           IF ~Truthy(config.lambdaFunctionUrl) THEN [type |-> "error"]
           ELSE [type |-> "toggleStreaming", enabled |-> ~state.useStreaming]
      [] in.command = "help" -> [type |-> "showHelp"]
      [] in.command = "session" -> [type |-> "showSession"]
      [] OTHER -> [type |-> "error"]

\* Lines 690-745: one turn of the chat loop.
ChatTurn(in) ==
    /\ proc = "chatCli"
    /\ cpc = "prompt"
    /\ LET r == processCommand(in)
       IN  CASE r.type = "query" ->
                  /\ invokeAgent(r.query)
                  /\ UNCHANGED state
             [] r.type = "exit" ->
                  /\ cpc' = "exited"
                  /\ UNCHANGED <<state, transportVars, requestBody, printed>>
             [] r.type = "switchAgent" ->
                  /\ state' = [state EXCEPT !.currentAgent = r.agent]
                  /\ UNCHANGED <<cpc, transportVars, requestBody, printed>>
             [] r.type = "toggleStreaming" ->
                  /\ state' = [state EXCEPT !.useStreaming = r.enabled]
                  /\ UNCHANGED <<cpc, transportVars, requestBody, printed>>
             [] OTHER -> UNCHANGED <<cpc, state, transportVars, requestBody, printed>>
    /\ UNCHANGED <<proc, serverVars, derivationVars, lookupVars, proxyVars, config,
                   sentIds>>

\* JSON.stringify of a response body object.
JsonStringify(body) ==
    <<"{">>
      \o (IF body.message = Undefined THEN <<>> ELSE <<"m", ":">> \o ValueOf(body.message))
      \o (IF body.agent = Undefined THEN <<>> ELSE <<"a", ":">> \o ValueOf(body.agent))
      \o <<"}">>

\* (mutation) an empty message is replaced like an absent one
AgentResponse_OrStringify(body) ==
    IF Truthy(body.message) THEN ValueOf(body.message) ELSE JsonStringify(body)

\* Lines 617 and 334: responseBody.message ?? JSON.stringify(responseBody)
AgentResponse(body) ==
    IF body.message # Undefined THEN ValueOf(body.message) ELSE JsonStringify(body)

\* What the invocation prints when its invoker has returned or thrown.
Outcome ==
    IF tpc = "failed" THEN [kind |-> "error", text |-> <<>>]
    ELSE IF cpc = "apiCall" THEN [kind |-> "response", text |-> AgentResponse(responseBody)]
    ELSE [kind |-> "streamed", text |-> <<>>]

\* (mutation) a failed invocation ends the chat
InvokeReturn_ExitsOnFailure ==
    /\ proc = "chatCli"
    /\ cpc \in {"streamingCall", "apiCall"}
    /\ tpc \in {"done", "failed"}
    /\ printed' = Outcome
    /\ requestBody' = NoRequestBody
    /\ cpc' = IF Truthy(config.singleQuery) \/ tpc = "failed" THEN "exited" ELSE "prompt"
    /\ UNCHANGED <<proc, serverVars, derivationVars, lookupVars, proxyVars,
                   transportVars, config, state, sentIds>>

\* Lines 603, 616-639 (and 333-347): the invoker has returned or thrown and
\* the outcome is printed; invokeAgent returns (its requestBody is gone), the
\* chat loop prompts again, a single query exits.
InvokeReturn ==
    /\ proc = "chatCli"
    /\ cpc \in {"streamingCall", "apiCall"}
    /\ tpc \in {"done", "failed"}
    /\ printed' = Outcome
    /\ requestBody' = NoRequestBody
    /\ cpc' = IF Truthy(config.singleQuery) THEN "exited" ELSE "prompt"
    /\ UNCHANGED <<proc, serverVars, derivationVars, lookupVars, proxyVars,
                   transportVars, config, state, sentIds>>

-----------------------------------------------------------------------------
(* The processes *)

Processes == {"lib", "buffered", "streaming", "mcpProxy", "chatCli"}

OutputKeys == {StreamingFunctionUrlEndpoint, ApiEndpoint}

ClientInit ==
    /\ lookups = [k \in OutputKeys |-> 0]
    /\ resolvedKeys = {}
    /\ lookupResults = [k \in OutputKeys |-> NoLookup]
    /\ ppc = "idle"
    /\ input = NoInput
    /\ toolResult = NoToolResult
    /\ invocations = 0
    /\ lookupCalls = 0
    /\ proxySent = {}
    /\ tpc = "idle"
    /\ terror = "none"
    /\ fetchCalls = 0
    /\ httpResponse = NoResponseYet
    /\ bodyText = <<>>
    /\ remaining = <<>>
    /\ decoderPending = <<>>
    /\ accumulatedResponse = <<>>
    /\ onChunkCalls = <<>>
    /\ written = <<>>
    /\ responseBody = NoResponseBody
    /\ readers = 0
    /\ readCalls = 0
    /\ handed = 0
    /\ cpc = "start"
    /\ config = NoConfig
    /\ state = NoState
    /\ requestBody = NoRequestBody
    /\ sentIds = {}
    /\ printed = NoPrint

Init ==
    /\ proc \in Processes
    /\ inits = <<>>
    /\ mastraInstancePromise = NoPromise
    /\ callers = [c \in 1..NumCallers |->
                    [pc |-> "start", promise |-> NoPromise, got |-> <<"none", 0>>]]
    /\ hpc = "idle"
    /\ event = NullBody
    /\ heldPromise = NoPromise
    /\ agentCall = NoCall
    /\ prevAgentCall = NoCall
    /\ response = NoResponse
    /\ writes = <<>>
    /\ endCalls = 0
    /\ writesAfterEnd = 0
    /\ contentType = "none"
    /\ networkBuilds = 0
    /\ idPairs = <<>>
    /\ chunkInputs = <<>>
    /\ derived = <<>>
    /\ toolCalls = <<>>
    /\ toolOutcomes = <<>>
    /\ s3Input = NoStream
    /\ s3Run = NotCalled
    /\ sigInput = NoSignedCall
    /\ sigRun = NotSigned
    /\ ClientInit

Next ==
    \/ \E i \in 1..Len(inits) : initializeMastra(i)
    \/ \E c \in 1..NumCallers : CallGetMastraInstance(c)
    \/ \E c \in 1..NumCallers : ResumeCaller(c)
    \/ \E b \in EventBodies : BufferedHandle(b)
    \/ BufferedDispatch
    \/ \E b \in EventBodies : StreamingHandle(b)
    \/ StreamingDispatchNetwork
    \/ StreamingDispatchAgent
    \/ StreamingWriteChunk
    \/ StreamingEnd
    \/ \E req \in CallToolRequests : CallTool(req)
    \/ ProxyCredentials
    \/ ProxyLookup
    \/ ProxySign
    \/ ProxyFetch
    \/ ProxyRead
    \/ ProxyReturn
    \/ \E argv \in CliArgs, urlOutcome \in LookupOutcomes, apiOutcome \in LookupOutcomes :
         loadAndValidateConfig(argv, urlOutcome, apiOutcome)
    \/ ExecuteSingleQuery
    \/ \E in \in UserInputs : ChatTurn(in)
    \/ UtilCredentials
    \/ UtilSign
    \/ ApiFetch
    \/ UtilFetch
    \/ UtilRead
    \/ InvokeReturn

Spec == Init /\ [][Next]_vars

\* The event loop resumes a read loop that awaits reader.read() once the body
\* source has a chunk, its end or an error to signal.
SpecFair == Spec /\ WF_vars(ProxyRead) /\ WF_vars(UtilRead)

-----------------------------------------------------------------------------
(* The thread-id derivation on its own: two (agent, threadId) pairs are    *)
(* drawn and the handler's derivation is applied to both.                  *)

IdChars == {"a", ":"}

RECURSIVE Strings(_)
Strings(n) ==
    IF n = 0 THEN {<<>>}
    ELSE Strings(n - 1) \cup {Append(s, ch) : s \in Strings(n - 1), ch \in IdChars}

IdPair == [agent : AWS_AGENT_NAMES_WITH_NETWORK, threadId : Strings(MaxIdLen)]

\* Splits s at the first occurrence of "::".
SplitAtFirstSeparator(s) ==
    LET at == {i \in 1..(Len(s) - 1) : SubSeq(s, i, i + 1) = Separator}
    IN  IF at = {} THEN <<s, <<>>>>
        ELSE LET i == CHOOSE j \in at : \A k \in at : j <= k
             IN  <<SubSeq(s, 1, i - 1), SubSeq(s, i + 2, Len(s))>>

DeriveThreadIds ==
    /\ proc = "derivation"
    /\ derived = <<>>
    /\ derived' = <<namespacedThreadId(idPairs[1].agent, idPairs[1].threadId),
                    namespacedThreadId(idPairs[2].agent, idPairs[2].threadId)>>
    /\ UNCHANGED <<proc, serverVars, idPairs, chunkInputs, toolVars, s3Vars,
                   signingVars, clientVars>>

InitDerivation ==
    /\ proc = "derivation"
    /\ inits = <<>>
    /\ mastraInstancePromise = NoPromise
    /\ callers = [c \in 1..NumCallers |->
                    [pc |-> "start", promise |-> NoPromise, got |-> <<"none", 0>>]]
    /\ hpc = "idle"
    /\ event = NullBody
    /\ heldPromise = NoPromise
    /\ agentCall = NoCall
    /\ prevAgentCall = NoCall
    /\ response = NoResponse
    /\ writes = <<>>
    /\ endCalls = 0
    /\ writesAfterEnd = 0
    /\ contentType = "none"
    /\ networkBuilds = 0
    /\ idPairs \in IdPair \X IdPair
    /\ chunkInputs = <<>>
    /\ derived = <<>>
    /\ toolCalls = <<>>
    /\ toolOutcomes = <<>>
    /\ s3Input = NoStream
    /\ s3Run = NotCalled
    /\ sigInput = NoSignedCall
    /\ sigRun = NotSigned
    /\ ClientInit

SpecDerivation == InitDerivation /\ [][DeriveThreadIds]_vars

-----------------------------------------------------------------------------
(* handleStreamingChunk on its own: a sequence of fragments is drawn and    *)
(* handed to it one by one, as the read loop does through onChunk.         *)

MaxFragments == 2       \* fragments of one streamed response
MaxFragmentLen == 2     \* characters of one fragment

ChunkChars == {"a", " ", "1"}

RECURSIVE Fragments(_)
Fragments(n) ==
    IF n = 0 THEN {<<>>}
    ELSE Fragments(n - 1) \cup {Append(t, ch) : t \in Fragments(n - 1), ch \in ChunkChars}

RECURSIVE FragmentSeqs(_)
FragmentSeqs(n) ==
    IF n = 0 THEN {<<>>}
    ELSE FragmentSeqs(n - 1)
           \cup {Append(fs, f) : fs \in FragmentSeqs(n - 1), f \in Fragments(MaxFragmentLen)}

\* onChunk(text) of the read loop: the next fragment is handed over.
HandleChunk ==
    /\ proc = "chunkHandler"
    /\ chunkInputs # <<>>
    /\ onChunkCalls' = Append(onChunkCalls, Head(chunkInputs))
    /\ written' = written \o handleStreamingChunk(Head(chunkInputs))
    /\ chunkInputs' = Tail(chunkInputs)
    /\ UNCHANGED <<proc, serverVars, idPairs, derived, toolVars, s3Vars, signingVars,
                   lookupVars, proxyVars, cliVars,
                   tpc, terror, fetchCalls, httpResponse, bodyText, remaining,
                   decoderPending, accumulatedResponse, responseBody, readerVars>>

InitChunks ==
    /\ proc = "chunkHandler"
    /\ inits = <<>>
    /\ mastraInstancePromise = NoPromise
    /\ callers = [c \in 1..NumCallers |->
                    [pc |-> "start", promise |-> NoPromise, got |-> <<"none", 0>>]]
    /\ hpc = "idle"
    /\ event = NullBody
    /\ heldPromise = NoPromise
    /\ agentCall = NoCall
    /\ prevAgentCall = NoCall
    /\ response = NoResponse
    /\ writes = <<>>
    /\ endCalls = 0
    /\ writesAfterEnd = 0
    /\ contentType = "none"
    /\ networkBuilds = 0
    /\ idPairs = <<>>
    /\ derived = <<>>
    /\ chunkInputs \in FragmentSeqs(MaxFragments)
    /\ toolCalls = <<>>
    /\ toolOutcomes = <<>>
    /\ s3Input = NoStream
    /\ s3Run = NotCalled
    /\ sigInput = NoSignedCall
    /\ sigRun = NotSigned
    /\ ClientInit

SpecChunks == InitChunks /\ [][HandleChunk]_vars

-----------------------------------------------------------------------------
(* Properties *)

BothCallsMade == agentCall.made /\ prevAgentCall.made

\* C2: two invocations with the same sessionId (the envelope's threadId) and
\* the same agent name hand the same threadId to the agent, and two with the
\* same sessionId but different agent names hand different threadIds, in the
\* buffered and in the streaming handler.
C2_ThreadIdPerAgent ==
    BothCallsMade /\ agentCall.envelope.threadId = prevAgentCall.envelope.threadId
      => (agentCall.threadId = prevAgentCall.threadId
            <=> agentCall.envelope.agent = prevAgentCall.envelope.agent)

\* An envelope with an empty query, or with an agent outside the enumeration.
MustBeRejected(b) ==
    /\ b.kind = "json"
    /\ \/ b.query = Some(<<>>)
       \/ b.agent # Undefined /\ ValueOf(b.agent) \notin AWS_AGENT_NAMES_WITH_NETWORK

RejectedAsInvalid ==
    /\ hpc = "idle"
    /\ proc = "buffered" => response.statusCode = 400
    /\ proc = "streaming" => writes = <<"Invalid request">>

\* C3: an envelope whose query is empty or whose agent is not enumerated is
\* rejected with a validation error by both handlers, and no generate/stream
\* call is made for it.
C3_InvalidEnvelopeRejected ==
    proc \in {"buffered", "streaming"} /\ MustBeRejected(event)
      => RejectedAsInvalid /\ ~agentCall.made

\* C7: the namespaced thread id is injective over (agent, threadId) pairs
\* with an enumerated agent, and splitting it at the first "::" gives the
\* pair back.
C7_NamespacedThreadIdInjective ==
    derived # <<>> =>
      /\ derived[1] = derived[2] => idPairs[1] = idPairs[2]
      /\ \A i \in 1..2 :
           SplitAtFirstSeparator(derived[i]) = <<idPairs[i].agent, idPairs[i].threadId>>

\* Two distinct pairs whose thread ids themselves contain "::" were derived.
C7_Witness ==
    /\ derived # <<>>
    /\ idPairs[1] # idPairs[2]
    /\ idPairs[1].threadId = <<":", ":", "a">>
    /\ idPairs[2].threadId = <<":", ":", ":">>

\* C8: under any interleaving of concurrent first calls of getMastraInstance
\* initializeMastra runs exactly once, and every caller awaits the same
\* promise and receives the same outcome of it.
C8_SingleInitialization ==
    /\ Len(inits) <= 1
    /\ \A c \in 1..NumCallers :
         callers[c].pc # "start" =>
           /\ Len(inits) = 1
           /\ callers[c].promise = mastraInstancePromise
    /\ \A c, d \in 1..NumCallers :
         callers[c].pc = "done" /\ callers[d].pc = "done"
           => callers[c].got = callers[d].got

\* Every caller has called while the initialization was still running, and
\* one of them has already received the instance.
C8_Witness ==
    /\ \A c \in 1..NumCallers : callers[c].pc # "start"
    /\ \E c, d \in 1..NumCallers :
         /\ callers[c].pc = "done" /\ callers[c].got[1] = "Mastra"
         /\ callers[d].pc = "awaiting"

\* C1: when an explicit endpoint override is supplied (the proxy's
\* lambdaFunctionUrlOverride, the CLI's --endpoint), the stack-output lookup
\* is called zero times during that invocation.
C1_OverrideSkipsLookup ==
    /\ proc = "mcpProxy" /\ Truthy(input.lambdaFunctionUrlOverride)
         => lookupCalls = 0
    /\ proc = "chatCli" /\ config.loaded /\ Truthy(config.endpointArg)
         => \A k \in OutputKeys : lookups[k] = 0

\* C4: every result the remoteAgentProxy tool call returns for validated
\* arguments carries a populated sessionId, whatever the outcome.
C4_ResultHasSessionId ==
    /\ proc = "mcpProxy"
    /\ toolResult.kind \in {"result", "error"}
    /\ toolResult.message # "Invalid request"
    => Truthy(toolResult.sessionId)

\* A streaming invocation is in progress or has just ended.
StreamingInvocation ==
    \/ proc = "mcpProxy" /\ ppc = "invoking"
    \/ proc = "chatCli" /\ cpc = "streamingCall"

\* The text handed to the caller so far.
Delivered ==
    IF proc = "mcpProxy" THEN accumulatedResponse ELSE Concat(onChunkCalls)

\* C5: in a streaming invocation, a response with a non-2xx status or without
\* a body makes the invoker fail, and no fragment has been delivered (nothing
\* appended to the accumulator, no onChunk call) when it does.
C5_NoFragmentBeforeStatusError ==
    /\ StreamingInvocation
    /\ httpResponse.received
    /\ ~httpResponse.ok \/ ~httpResponse.hasBody
    => /\ tpc = "failed"
       /\ terror \in {"status", "nobody"}
       /\ accumulatedResponse = <<>>
       /\ onChunkCalls = <<>>

\* A non-2xx response that carried a body was refused with nothing delivered.
C5_Witness ==
    /\ StreamingInvocation
    /\ tpc = "failed"
    /\ terror = "status"
    /\ httpResponse.hasBody
    /\ bodyText # <<>>
    /\ Delivered = <<>>

\* C6: the fragments of the body are delivered once each and in arrival
\* order: what has been delivered is always a prefix of the body's text, and
\* equals it when the invoker returns.
C6_FragmentsDeliveredInOrder ==
    StreamingInvocation /\ httpResponse.received
      => /\ IsPrefix(Delivered, bodyText)
         /\ tpc = "done" => Delivered = bodyText

\* A body whose two-byte character was split over two reads was delivered
\* whole, in three fragments.
C6_Witness ==
    /\ proc = "chatCli"
    /\ cpc = "streamingCall"
    /\ tpc = "done"
    /\ bodyText = <<"u00E9", "a">>
    /\ Len(onChunkCalls) = 3
    /\ Concat(onChunkCalls) = bodyText

\* C9: once a lookup of an output key has returned its URL, the process makes
\* no further lookup of that key.
C9_ResolvedOnce ==
    [][\A k \in resolvedKeys : lookups'[k] = lookups[k]]_vars

\* C10: each call of a transport invoker issues exactly one HTTP request,
\* whatever the outcome.
C10_ExactlyOneRequest ==
    tpc \in {"done", "failed"} => fetchCalls = 1

\* C10 (amended): each call of a transport invoker issues at most one HTTP
\* request: none when it fails before sending (credentials, URL or signing),
\* exactly one otherwise, and a failed request is never sent again.
C10_AtMostOneRequest ==
    /\ fetchCalls <= 1
    /\ tpc \in {"done", "failed"}
         => fetchCalls = IF terror \in {"credentials", "sign"} THEN 0 ELSE 1

\* A request failed on the network or was answered non-2xx, and the invoker
\* gave up after that one request.
C10_Witness ==
    /\ tpc = "failed"
    /\ terror \in {"network", "status"}
    /\ fetchCalls = 1

\* A buffered invocation of the chat CLI is in progress or has just ended.
BufferedInvocation == proc = "chatCli" /\ cpc = "apiCall"

\* C11: every non-2xx response to a buffered invocation, whatever its body
\* (JSON, non-JSON or empty), makes invokeSignedApiRequest fail with the
\* error that carries the response's status code.
C11_NonOkFailsWithStatus ==
    BufferedInvocation /\ httpResponse.received /\ ~httpResponse.ok
      => tpc = "failed" /\ terror = "status"

\* The buffered handler has returned its answer to the event in hand.
BufferedAnswered == proc = "buffered" /\ hpc = "idle" /\ response # NoResponse

\* C12: the status of the buffered handler's answer classifies the outcome:
\* 400 {message: "Invalid request", errors} exactly when the envelope fails
\* validation, 500 {message: "Internal Server Error", error} exactly when
\* something threw after validation passed (obtaining the instance, the agent
\* lookup or the generation), and 200 {message, agent} otherwise.
C12_StatusClassifiesOutcome ==
    BufferedAnswered =>
      /\ response.statusCode \in {200, 400, 500}
      /\ response.statusCode = 400 <=> ~EventBodySchema(event)
      /\ response.statusCode = 500 <=> EventBodySchema(event) /\ response.caught # "none"
      /\ response.statusCode = 200 <=> EventBodySchema(event) /\ response.caught = "none"
      /\ response.statusCode = 400
           => response.message = "Invalid request" /\ response.key = "errors"
      /\ response.statusCode = 500
           => response.message = "Internal Server Error" /\ response.key = "error"
      /\ response.statusCode = 200 => response.key = "agent"

\* A valid envelope reached the agent and was answered 500 because
\* generate() threw.
C12_Witness ==
    /\ BufferedAnswered
    /\ EventBodySchema(event)
    /\ response.statusCode = 500
    /\ response.caught = "generate"
    /\ agentCall.made

\* The streaming handler has ended an invocation whose only write is the
\* report of an error: nothing of an answer was written before it.
PreStreamError ==
    /\ proc = "streaming"
    /\ hpc = "idle"
    /\ endCalls > 0
    /\ ChunksWritten = 0
    /\ Len(writes) = 1

\* C13: an error the streaming handler detects before any fragment is written
\* (a validation failure in particular) is answered with a non-2xx status,
\* so that the client's status check refuses the response.
C13_PreStreamErrorRefusedByStatus ==
    PreStreamError =>
      /\ StreamedStatusCode \notin 200..299
      /\ UtilResponseRejected(StreamedHttpResponse)
      /\ ProxyResponseRejected(StreamedHttpResponse)

\* The catch block's report of an error is among the writes.
ErrorWritten == \E i \in 1..Len(writes) : writes[i] = "Internal Server Error"

\* C14: when the streaming handler catches an error after k fragments were
\* written, the k fragments stay as written, the error is written as one
\* further fragment, that fragment is the last write of the response, and
\* end() is called after it.
C14_ErrorIsFinalFragment ==
    [][proc = "streaming" =>
         /\ hpc # "idle" => IsPrefix(writes, writes')
         /\ ErrorWritten' =>
              /\ \A i \in 1..Len(writes') :
                   writes'[i] = "Internal Server Error" <=> i = Len(writes')
              /\ ~ErrorWritten => /\ Len(writes') = Len(writes) + 1
                                  /\ endCalls' > endCalls
              /\ endCalls' >= 1
              /\ hpc' = "idle"]_vars

\* The text stream threw after two chunks were written: the error follows
\* them and the stream was ended once.
C14_Witness ==
    /\ proc = "streaming"
    /\ writes = <<"chunk", "chunk", "Internal Server Error">>
    /\ endCalls = 1
    /\ hpc = "idle"

\* The proxy has returned the result of an invocation whose response body
\* stopped before its end: reader.read() rejected.
StreamStoppedEarly ==
    /\ proc = "mcpProxy"
    /\ ppc = "idle"
    /\ toolResult.kind = "result"
    /\ tpc = "failed"
    /\ terror = "read"

\* C15: when a streaming response stops before it has completed, the result
\* the caller gets is not that of a complete answer and it carries the
\* partial output received so far.
C15_PartialOutputFlagged ==
    StreamStoppedEarly =>
      /\ toolResult.message # "responseText"
      /\ toolResult.text = accumulatedResponse

\* An invocation of the interactive chat loop is in progress.
ChatInvocation ==
    /\ proc = "chatCli"
    /\ cpc \in {"streamingCall", "apiCall"}
    /\ ~Truthy(config.singleQuery)

\* C16: in the interactive chat loop an invocation leaves the session id, the
\* current agent and the streaming mode as they were, and when it has failed
\* (credentials, signing, connection, non-2xx status, stream read) the
\* failure is reported and the next prompt shown: the process does not exit.
C16_FailureKeepsChatRunning ==
    [][ChatInvocation =>
         /\ config' = config
         /\ state' = state
         /\ cpc' # cpc => cpc' = "prompt"
         /\ cpc' # cpc /\ tpc = "failed" => printed'.kind = "error"]_vars

\* After a switch of agent a streamed invocation failed while its body was
\* read, and the chat is at its prompt again with the failure reported.
C16_Witness ==
    /\ proc = "chatCli"
    /\ cpc = "prompt"
    /\ tpc = "failed"
    /\ terror = "read"
    /\ onChunkCalls # <<>>
    /\ printed.kind = "error"
    /\ state.currentAgent = S3_AGENT
    /\ state.useStreaming

\* C17: endpoint resolution gives its caller distinguishable failures: a
\* lookup whose call failed is not reported like an absent output key, in
\* the MCP proxy (getCfnOutput) and in the CLI utilities (getFunctionUrl,
\* getApiEndpoint).
C17_LookupFailuresDistinguished ==
    \A k \in OutputKeys :
      /\ lookupResults[k].outcome = "absent" => lookupResults[k].gave = "undefined"
      /\ lookupResults[k].outcome = "failed" => lookupResults[k].gave = "thrown"

\* A handler has finished an invocation whose envelope passed validation and
\* for which the Mastra instance was obtained.
ValidatedAndFinished ==
    /\ proc \in {"buffered", "streaming"}
    /\ hpc = "idle"
    /\ EventBodySchema(event)
    /\ heldPromise # NoPromise
    /\ inits[heldPromise] = "resolved"

\* C18: every agent name the envelope validation accepts is dispatched to a
\* target by the buffered and by the streaming handler: once the instance is
\* there, the agent is found and its generate() or stream() is called.
C18_ValidatedAgentDispatched ==
    ValidatedAndFinished => agentCall.made

\* A buffered invocation of the chat CLI has printed the agent's response to
\* a 2xx answer whose JSON body has a message.
BufferedAnswerPrinted ==
    /\ proc = "chatCli"
    /\ printed.kind = "response"
    /\ tpc = "done"
    /\ httpResponse.ok
    /\ responseBody.message # Undefined

\* C19: for a buffered invocation answered 2xx with the JSON body
\* {message: m, agent: a}, the output presented is exactly m; the session id
\* never changes once the configuration is loaded, and it is the one the
\* request of a buffered invocation carries.
C19_BufferedOutputIsMessage ==
    [][proc = "chatCli" =>
         /\ BufferedAnswerPrinted' => printed'.text = ValueOf(responseBody'.message)
         /\ config.loaded => config'.sessionId = config.sessionId
         /\ BufferedInvocation' =>
              /\ requestBody'.threadId = ThreadPrefix \o config'.sessionId
              /\ requestBody'.resourceId = ResourcePrefix \o config'.sessionId]_vars

\* A 2xx answer whose message is the empty string was presented as the empty
\* string, in a session whose id was given on the command line.
C19_Witness ==
    /\ BufferedAnswerPrinted
    /\ responseBody.message = Some(<<>>)
    /\ responseBody.agent # Undefined
    /\ printed.text = <<>>
    /\ config.sessionId \in SessionIds
    /\ sentIds # {}

\* The ids the requests of this session have to carry.
SessionThreadAndResource ==
    <<ThreadPrefix \o config.sessionId, ResourcePrefix \o config.sessionId>>

\* C20: throughout one chat session every request sent carries the same
\* threadId and the same resourceId, both derived from the session's
\* sessionId, after any sequence of queries, agent switches and streaming
\* toggles.
C20_SameIdsThroughoutSession ==
    proc = "chatCli" =>
      /\ Cardinality(sentIds) <= 1
      /\ \A id \in sentIds : id = SessionThreadAndResource

\* In a session that started without streaming, the agent was switched and
\* streaming toggled on at the prompt, and the request then sent carries the
\* session's ids.
C20_Witness ==
    /\ proc = "chatCli"
    /\ cpc = "streamingCall"
    /\ fetchCalls = 1
    /\ requestBody.agent = S3_AGENT
    /\ state.useStreaming
    /\ Truthy(config.apiGatewayEndpoint)
    /\ ~config.initialUseStreaming
    /\ sentIds = {SessionThreadAndResource}

\* C21: the resourceId sent is a function of the sessionId alone: two requests
\* of one caller with the same sessionId carry the same resourceId, whatever
\* their query and agent and whatever was sent before.
C21_ResourceIdFromSessionId ==
    /\ \A a, b \in proxySent : a.threadId = b.threadId => a.resourceId = b.resourceId
    /\ \A a \in proxySent : a.resourceId = ProxyResourcePrefix \o a.threadId
    /\ proc = "chatCli" =>
         /\ \A id \in sentIds : id[2] = ResourcePrefix \o config.sessionId
         /\ cpc \in {"streamingCall", "apiCall"}
              => requestBody.resourceId = ResourcePrefix \o config.sessionId

\* One proxy process has sent two requests with the same sessionId and
\* different agents.
C21_Witness ==
    \E a, b \in proxySent :
      /\ a.threadId = b.threadId
      /\ a.agent # b.agent
      /\ a.resourceId = b.resourceId

\* The steps of a streaming invocation that the stated state machine
\* INIT -> SENDING -> (FAILED | STREAMING* -> DONE) has, a failure of the body
\* source while STREAMING included.
StatedTransitions ==
    {<<"credentials", "signing">>, <<"signing", "fetching">>,
     <<"fetching", "failed">>, <<"fetching", "reading">>,
     <<"reading", "done">>, <<"reading", "failed">>}

\* Those and the failures before anything is sent.
ActualTransitions ==
    StatedTransitions \cup {<<"credentials", "failed">>, <<"signing", "failed">>}

\* A step of a streaming invocation hands a fragment to the caller.
FragmentDelivered ==
    onChunkCalls' # onChunkCalls \/ accumulatedResponse' # accumulatedResponse

\* Fragments are delivered only while the body of an accepted response is
\* read, and the invoker returns only when the body source signalled its end.
DeliveryWhileStreamingOnly ==
    /\ FragmentDelivered =>
         /\ tpc = "reading" /\ tpc' = "reading"
         /\ httpResponse.ok /\ httpResponse.hasBody
    /\ tpc' = "done" => remaining' = <<>>

\* C22: a streaming invocation follows
\* INIT -> SENDING -> (FAILED | STREAMING* -> DONE); no fragment is delivered
\* before the status check or after FAILED/DONE, and the invoker returns only
\* after the end of the body.
C22_StatedStateMachine ==
    [][StreamingInvocation =>
         /\ tpc' # tpc => <<tpc, tpc'>> \in StatedTransitions
         /\ DeliveryWhileStreamingOnly]_vars

\* C22 (amended): a streaming invocation follows
\* INIT -> (FAILED | SENDING -> (FAILED | STREAMING* -> (DONE | FAILED))); no
\* fragment is delivered before the status check or after FAILED/DONE, the
\* invoker returns only after the end of the body, and an invocation that
\* reads the body eventually terminates.
C22_StateMachine ==
    /\ [][StreamingInvocation =>
            /\ tpc' # tpc => <<tpc, tpc'>> \in ActualTransitions
            /\ DeliveryWhileStreamingOnly]_vars
    /\ (StreamingInvocation /\ tpc = "reading")
         ~> (StreamingInvocation /\ tpc \in {"done", "failed"})

\* A body of two characters was delivered in two fragments and the invoker
\* returned at the end of the body.
C22_Witness ==
    /\ StreamingInvocation
    /\ tpc = "done"
    /\ remaining = <<>>
    /\ Len(bodyText) = 2
    /\ \/ Len(onChunkCalls) = 2
       \/ proc = "mcpProxy" /\ accumulatedResponse = bodyText

\* C23: in the streaming read loop read number n+1 is requested only after
\* fragment n has been handed to the caller, so at most one read is ever
\* ahead of the fragments handed on, and an invocation that reads the body
\* has exactly one reader.
C23_ReadAfterHandOver ==
    StreamingInvocation =>
      /\ readCalls <= handed + 1
      /\ readers <= 1
      /\ tpc \in {"reading", "done"} => readers = 1 /\ readCalls = handed + 1

\* The loop has handed on three fragments and asked for the fourth chunk.
C23_Witness ==
    /\ StreamingInvocation
    /\ tpc = "reading"
    /\ handed = 3
    /\ readCalls = 4
    /\ readers = 1

\* C24: in the chat CLI's streaming path every fragment received is written
\* to the output as raw text: what has been written is the concatenation of
\* the fragments received, whatever they contain.
C24_WrittenIsConcatenation ==
    proc \in {"chatCli", "chunkHandler"} => written = Concat(onChunkCalls)

\* A query typed now would find a transport.
UsableTransport ==
    \/ state.useStreaming /\ Truthy(config.lambdaFunctionUrl)
    \/ Truthy(config.apiGatewayEndpoint)

\* C25: in the interactive chat, in every state reached from a validated
\* configuration by any sequence of commands, a query has a usable
\* transport, and the "No valid method to contact the agent" branch of
\* invokeAgent is never taken.
C25_TransportAlwaysUsable ==
    /\ proc = "chatCli" /\ cpc = "prompt" => UsableTransport
    /\ proc = "chatCli" /\ cpc \in {"streamingCall", "apiCall", "prompt"}
         => ~(printed.kind = "error" /\ tpc = "idle")

\* C26: across the invocations one server process handles, agent targets are
\* constructed at most once: initializeMastra (the seven agents) runs at
\* most once and so does createAwsAgentNetwork (the coordinator).
C26_TargetsConstructedOnce ==
    proc \in {"buffered", "streaming"} =>
      /\ Len(inits) <= 1
      /\ networkBuilds <= 1

-----------------------------------------------------------------------------
(* The error handling of the tools (src/lib/tools).  Each execute() runs   *)
(* its body in a try block whose catch decides between re-throwing what    *)
(* the body threw and throwing a new Error that wraps it.  A JSON text is  *)
(* a message that carries the object it serialises; any other message is   *)
(* plain text, which JSON.parse rejects.                                   *)

MaxToolCalls == 2       \* tool executions of one run

ToolIds == {"codepipeline_get_pipeline", "get_date_offset",
            "cloudformation_describe_stack"}

\* What the body of execute() meets: the thing asked for, its absence, an
\* SDK error with a plain message, an error whose message is the JSON of
\* some other structured error, or a thrown value that is not an Error.
BodyEvents == {"found", "absent", "sdkError", "jsonError", "nonError"}

Regions == {"us-east-1", "eu-west-1"}

ToolInputs == [tool : ToolIds, event : BodyEvents, name : {"x"}, region : Regions]

RECURSIVE ToolInputSeqs(_)
ToolInputSeqs(n) ==
    IF n = 0 THEN {<<>>}
    ELSE ToolInputSeqs(n - 1) \cup
         {Append(s, i) : s \in {t \in ToolInputSeqs(n - 1) : Len(t) = n - 1},
                         i \in ToolInputs}

TextMessage(t) == [json |-> FALSE, text |-> t, error |-> Undefined]

\* JSON.stringify({ error: body })
JsonStringifyError(body) == [json |-> TRUE, text |-> <<>>, error |-> Some(body)]

\* JSON.parse(message): the parsed object, or Undefined where it throws.
JsonParseError(message) ==
    IF message # Undefined /\ ValueOf(message).json
    THEN Some([error |-> ValueOf(message).error])
    ELSE Undefined

ErrorBody(message, name, region, type, tool, originalError) ==
    [message |-> message, name |-> name, region |-> region, type |-> type,
     tool |-> tool, originalError |-> originalError]

NewError(ctor, message) == [isError |-> TRUE, ctor |-> ctor, message |-> Some(message)]

NonError == [isError |-> FALSE, ctor |-> "String", message |-> Undefined]

SyntaxError == NewError("SyntaxError", TextMessage(<<"Unexpected token">>))

\* The structured error each tool raises when what it was asked for is absent.
OwnStructuredError(in) ==
    CASE in.tool = "codepipeline_get_pipeline" ->
           NewError("Error", JsonStringifyError(ErrorBody(
               TextMessage(<<"Pipeline not found", in.name, in.region>>),
               Some(in.name), Some(in.region), "PipelineNotFoundError",
               Undefined, Undefined)))
      [] in.tool = "get_date_offset" ->
           NewError("Error", JsonStringifyError(ErrorBody(
               TextMessage(<<"Offset description is not supported", in.name>>),
               Undefined, Undefined, "UnsupportedOffsetDescriptionError",
               Some("get_date_offset"), Undefined)))
      [] in.tool = "cloudformation_describe_stack" ->
           NewError("Error", JsonStringifyError(ErrorBody(
               TextMessage(<<"Stack not found", in.name>>),
               Some(in.name), Some(in.region), "StackNotFoundError",
               Undefined, Undefined)))

\* What the try block of execute() throws (Undefined where it returns).
BodyThrows(in) ==
    CASE in.event = "found"     -> Undefined
      [] in.event = "absent"    -> Some(OwnStructuredError(in))
      [] in.event = "sdkError"  ->
           Some(NewError("ServiceException", TextMessage(<<"Access denied">>)))
      [] in.event = "jsonError" ->
           Some(NewError("Error", JsonStringifyError(ErrorBody(
               TextMessage(<<"Rate exceeded">>), Undefined, Undefined,
               "ThrottlingError", Some("other_tool"), Undefined))))
      [] in.event = "nonError"  -> Some(NonError)

\* A catch clause whose block throws nothing: whatever the try block threw,
\* a re-thrown error included, stops there.
CaughtAndDropped(thrownInTry) == Undefined

\* The catch clause of codepipeline_get_pipeline.
codepipelineGetPipelineCatch(error, in) ==
    LET errorMessage == IF error.isError THEN error.message
                        ELSE Some(TextMessage(<<"An unknown error occurred">>))
        parsedError  == JsonParseError(errorMessage)
        thrownInTry  ==
            IF parsedError = Undefined THEN Some(SyntaxError)
            ELSE IF /\ ValueOf(parsedError).error # Undefined
                    /\ ValueOf(ValueOf(parsedError).error).type = "PipelineNotFoundError"
                 THEN Some(error)
                 ELSE Undefined
        escaped      == CaughtAndDropped(thrownInTry)
    IN  IF escaped # Undefined THEN ValueOf(escaped)
        ELSE NewError("Error", JsonStringifyError(ErrorBody(
                 ValueOf(errorMessage), Some(in.name), Some(in.region),
                 IF error.isError THEN error.ctor ELSE "UnknownError",
                 Undefined,
                 IF error.isError THEN Some("stack") ELSE Undefined)))

\* The catch clause of get_date_offset.
getDateOffsetCatch(error, in) ==
    LET parsedMessage == JsonParseError(error.message)
        thrownInTry   ==
            IF parsedMessage = Undefined THEN Some(SyntaxError)
            ELSE IF /\ ValueOf(parsedMessage).error # Undefined
                    /\ ValueOf(ValueOf(parsedMessage).error).tool = Some("get_date_offset")
                 THEN Some(error)
                 ELSE Undefined
        escaped       == CaughtAndDropped(thrownInTry)
        finalErrorMessage ==
            IF error.message # Undefined THEN ValueOf(error.message)
            ELSE TextMessage(<<"An unknown error occurred while calculating the offset date.">>)
    IN  IF escaped # Undefined THEN ValueOf(escaped)
        ELSE NewError("Error", JsonStringifyError(ErrorBody(
                 finalErrorMessage, Undefined, Undefined, error.ctor,
                 Some("get_date_offset"), Undefined)))

\* The catch clause of cloudformation_describe_stack: its inner try block
\* always throws (JSON.parse, or the new Error built from what it parsed)
\* and its inner catch throws the wrapping error.
cloudformationDescribeStackCatch(error, in) ==
    LET errorMessage == IF error.isError THEN error.message
                        ELSE Some(TextMessage(<<"Unknown error occurred">>))
        parsedError  == JsonParseError(errorMessage)
        thrownInTry  ==
            IF parsedError = Undefined THEN SyntaxError
            ELSE NewError("Error", TextMessage(<<"[object Object]">>))
    IN  NewError("Error", JsonStringifyError(ErrorBody(
            ValueOf(errorMessage), Some(in.name), Some(in.region),
            IF error.isError THEN error.ctor ELSE "UnknownError",
            Undefined, Undefined)))

\* execute() of the tool in.tool: what the body threw and what the caller got.
ToolExecution(in) ==
    LET raised == BodyThrows(in)
    IN  [tool    |-> in.tool,
         event   |-> in.event,
         raised  |-> raised,
         reached |->
           IF raised = Undefined THEN Undefined
           ELSE CASE in.tool = "codepipeline_get_pipeline" ->
                       Some(codepipelineGetPipelineCatch(ValueOf(raised), in))
                  [] in.tool = "get_date_offset" ->
                       Some(getDateOffsetCatch(ValueOf(raised), in))
                  [] in.tool = "cloudformation_describe_stack" ->
                       Some(cloudformationDescribeStackCatch(ValueOf(raised), in))]

ToolExecute ==
    /\ proc = "tool"
    /\ toolCalls # <<>>
    /\ toolOutcomes' = Append(toolOutcomes, ToolExecution(Head(toolCalls)))
    /\ toolCalls' = Tail(toolCalls)
    /\ UNCHANGED <<proc, serverVars, idPairs, derived, chunkInputs, s3Vars,
                   signingVars, clientVars>>

InitTools ==
    /\ proc = "tool"
    /\ inits = <<>>
    /\ mastraInstancePromise = NoPromise
    /\ callers = [c \in 1..NumCallers |->
                    [pc |-> "start", promise |-> NoPromise, got |-> <<"none", 0>>]]
    /\ hpc = "idle"
    /\ event = NullBody
    /\ heldPromise = NoPromise
    /\ agentCall = NoCall
    /\ prevAgentCall = NoCall
    /\ response = NoResponse
    /\ writes = <<>>
    /\ endCalls = 0
    /\ writesAfterEnd = 0
    /\ contentType = "none"
    /\ networkBuilds = 0
    /\ idPairs = <<>>
    /\ derived = <<>>
    /\ chunkInputs = <<>>
    /\ toolCalls \in ToolInputSeqs(MaxToolCalls)
    /\ toolOutcomes = <<>>
    /\ s3Input = NoStream
    /\ s3Run = NotCalled
    /\ sigInput = NoSignedCall
    /\ sigRun = NotSigned
    /\ ClientInit

SpecTools == InitTools /\ [][ToolExecute]_vars

\* C27: when a tool's body raises the tool's own structured error, the error
\* that reaches the tool's caller is that same error, not a new one.
C27_StructuredErrorRethrown ==
    \A i \in 1..Len(toolOutcomes) :
        toolOutcomes[i].event = "absent" =>
            toolOutcomes[i].reached = toolOutcomes[i].raised

-----------------------------------------------------------------------------
(* streamToString of the S3 get-object tool (src/lib/tools/s3).  A byte is *)
(* a one-character string.  A Buffer or a string holds the concatenation   *)
(* of the chunks; a Readable emits them as 'data' events and a web         *)
(* ReadableStream returns them from read().                                *)

MaxSourceChunks == 2    \* chunks a source delivers
MaxChunkBytes == 2      \* bytes of one chunk
MaxSizeLimit == 2       \* largest maxSize passed

ByteValues == {"a", "b"}

SourceKinds == {"Buffer", "Readable", "ReadableStream", "string", "other"}

RECURSIVE ByteChunks(_)
ByteChunks(n) ==
    IF n = 0 THEN {<<>>}
    ELSE ByteChunks(n - 1) \cup
         {Append(c, b) : c \in {d \in ByteChunks(n - 1) : Len(d) = n - 1},
                         b \in ByteValues}

RECURSIVE ChunkSeqs(_)
ChunkSeqs(n) ==
    IF n = 0 THEN {<<>>}
    ELSE ChunkSeqs(n - 1) \cup
         {Append(s, c) : s \in {t \in ChunkSeqs(n - 1) : Len(t) = n - 1},
                         c \in ByteChunks(MaxChunkBytes)}

\* Buffer.concat(chunks)
RECURSIVE BufferConcat(_)
BufferConcat(chunks) ==
    IF chunks = <<>> THEN <<>> ELSE Head(chunks) \o BufferConcat(Tail(chunks))

\* slice(0, n) / substring(0, n) for n >= 0
Slice(bytes, n) == SubSeq(bytes, 1, IF n < Len(bytes) THEN n ELSE Len(bytes))

Resolved(content, truncated) ==
    [state |-> "resolved", content |-> content, truncated |-> truncated]

Rejected == [state |-> "rejected", content |-> <<>>, truncated |-> FALSE]

\* The copy loop of the web-stream branch: chunks are copied into an array
\* of min(totalSize, maxSize) bytes until one does not fit whole.
RECURSIVE CopyChunks(_, _, _)
CopyChunks(chunks, copied, maxSize) ==
    IF chunks = <<>> THEN copied
    ELSE IF Len(copied) + Len(Head(chunks)) <= maxSize
         THEN CopyChunks(Tail(chunks), copied \o Head(chunks), maxSize)
         ELSE copied \o Slice(Head(chunks), maxSize - Len(copied))

\* streamToString is called: a Buffer and a string are converted at once,
\* a Readable gets its listeners, a web stream its reader, anything else
\* is refused.
StreamToStringCall ==
    /\ proc = "s3"
    /\ s3Run.pc = "idle"
    /\ LET all       == BufferConcat(s3Input.chunks)
           truncated == Len(all) > s3Input.maxSize
           direct    == Resolved(IF truncated THEN Slice(all, s3Input.maxSize) ELSE all,
                                 truncated)
       IN  s3Run' =
             CASE s3Input.kind \in {"Buffer", "string"} ->
                    [s3Run EXCEPT !.pc = "returned", !.promise = direct]
               [] s3Input.kind = "Readable" ->
                    [s3Run EXCEPT !.pc = "listening", !.rest = s3Input.chunks]
               [] s3Input.kind = "ReadableStream" ->
                    [s3Run EXCEPT !.pc = "reading", !.rest = s3Input.chunks]
               [] OTHER ->
                    [s3Run EXCEPT !.pc = "returned", !.promise = Rejected]
    /\ UNCHANGED <<proc, serverVars, idPairs, derived, chunkInputs, toolVars,
                   s3Input, signingVars, clientVars>>

\* The 'data' listener: keeps the chunk and destroys the stream once the
\* total passes maxSize.
ReadableData ==
    /\ proc = "s3"
    /\ s3Run.pc = "listening"
    /\ ~s3Run.destroyed
    /\ s3Run.rest # <<>>
    /\ LET chunk     == Head(s3Run.rest)
           totalSize == s3Run.totalSize + Len(chunk)
           over      == totalSize > s3Input.maxSize /\ ~s3Run.truncated
       IN  s3Run' = [s3Run EXCEPT !.rest = Tail(s3Run.rest),
                                  !.chunks = Append(s3Run.chunks, chunk),
                                  !.totalSize = totalSize,
                                  !.truncated = s3Run.truncated \/ over,
                                  !.destroyed = over]
    /\ UNCHANGED <<proc, serverVars, idPairs, derived, chunkInputs, toolVars,
                   s3Input, signingVars, clientVars>>

\* The 'error' listener rejects.
ReadableError ==
    /\ proc = "s3"
    /\ s3Run.pc = "listening"
    /\ ~s3Run.destroyed
    /\ s3Input.fails
    /\ s3Run' = [s3Run EXCEPT !.pc = "returned", !.promise = Rejected]
    /\ UNCHANGED <<proc, serverVars, idPairs, derived, chunkInputs, toolVars,
                   s3Input, signingVars, clientVars>>

\* The 'end' listener resolves.  A stream that was destroyed with chunks
\* still to come never emits 'end'; one destroyed on its last chunk may
\* still emit it before it closes.
ReadableEnd ==
    /\ proc = "s3"
    /\ s3Run.pc = "listening"
    /\ s3Run.rest = <<>>
    /\ ~s3Input.fails
    /\ LET content == BufferConcat(s3Run.chunks)
       IN  s3Run' = [s3Run EXCEPT
                       !.pc = "returned",
                       !.promise = Resolved(IF s3Run.truncated
                                            THEN Slice(content, s3Input.maxSize)
                                            ELSE content,
                                            s3Run.truncated)]
    /\ UNCHANGED <<proc, serverVars, idPairs, derived, chunkInputs, toolVars,
                   s3Input, signingVars, clientVars>>

\* readable.destroy() closes the stream: no listener is called any more.
ReadableClose ==
    /\ proc = "s3"
    /\ s3Run.pc = "listening"
    /\ s3Run.destroyed
    /\ s3Run' = [s3Run EXCEPT !.pc = "closed"]
    /\ UNCHANGED <<proc, serverVars, idPairs, derived, chunkInputs, toolVars,
                   s3Input, signingVars, clientVars>>

\* One pass of the read loop of the web-stream branch, with the copy and
\* the return that follow the loop when it is left.
WebRead ==
    /\ proc = "s3"
    /\ s3Run.pc = "reading"
    /\ \/ /\ s3Run.rest = <<>>
          /\ ~s3Input.fails
          /\ s3Run' = [s3Run EXCEPT
                         !.pc = "returned",
                         !.promise = Resolved(CopyChunks(s3Run.chunks, <<>>,
                                                         s3Input.maxSize),
                                              s3Run.truncated)]
       \/ /\ s3Run.rest # <<>>
          /\ LET value     == Head(s3Run.rest)
                 chunks    == Append(s3Run.chunks, value)
                 totalSize == s3Run.totalSize + Len(value)
                 over      == totalSize > s3Input.maxSize /\ ~s3Run.truncated
             IN  s3Run' =
                   IF over
                   THEN [s3Run EXCEPT
                           !.pc = "returned", !.rest = Tail(s3Run.rest),
                           !.chunks = chunks, !.totalSize = totalSize,
                           !.truncated = TRUE,
                           !.promise = Resolved(CopyChunks(chunks, <<>>,
                                                           s3Input.maxSize), TRUE)]
                   ELSE [s3Run EXCEPT
                           !.rest = Tail(s3Run.rest), !.chunks = chunks,
                           !.totalSize = totalSize]
       \/ /\ s3Input.fails
          /\ s3Run' = [s3Run EXCEPT !.pc = "returned", !.promise = Rejected]
    /\ UNCHANGED <<proc, serverVars, idPairs, derived, chunkInputs, toolVars,
                   s3Input, signingVars, clientVars>>

StreamToStringNext ==
    \/ StreamToStringCall
    \/ ReadableData
    \/ ReadableError
    \/ ReadableEnd
    \/ ReadableClose
    \/ WebRead

InitStreamToString ==
    /\ proc = "s3"
    /\ inits = <<>>
    /\ mastraInstancePromise = NoPromise
    /\ callers = [c \in 1..NumCallers |->
                    [pc |-> "start", promise |-> NoPromise, got |-> <<"none", 0>>]]
    /\ hpc = "idle"
    /\ event = NullBody
    /\ heldPromise = NoPromise
    /\ agentCall = NoCall
    /\ prevAgentCall = NoCall
    /\ response = NoResponse
    /\ writes = <<>>
    /\ endCalls = 0
    /\ writesAfterEnd = 0
    /\ contentType = "none"
    /\ networkBuilds = 0
    /\ idPairs = <<>>
    /\ derived = <<>>
    /\ chunkInputs = <<>>
    /\ toolCalls = <<>>
    /\ toolOutcomes = <<>>
    /\ s3Input \in [kind : SourceKinds, chunks : ChunkSeqs(MaxSourceChunks),
                    maxSize : 1..MaxSizeLimit, fails : BOOLEAN]
    /\ s3Run = NotCalled
    /\ sigInput = NoSignedCall
    /\ sigRun = NotSigned
    /\ ClientInit

SpecStreamToString == InitStreamToString /\ [][StreamToStringNext]_vars

\* The source can make no further call into streamToString.
SourceSilent == s3Run.pc \in {"returned", "closed"}

SourceHeld == Len(BufferConcat(s3Input.chunks))

\* C28: for every source and maxSize, streamToString settles: once its
\* source has nothing more to deliver the promise is resolved or rejected;
\* a resolved content is at most maxSize long, and truncated is true exactly
\* when the source held more than maxSize.
C28_StreamToStringSettles ==
    proc = "s3" =>
      /\ SourceSilent => s3Run.promise.state # "pending"
      /\ s3Run.promise.state = "resolved" =>
           /\ Len(s3Run.promise.content) <= s3Input.maxSize
           /\ s3Run.promise.truncated <=> (SourceHeld > s3Input.maxSize)

\* C29: on every path of the streaming handler responseStream.end() is
\* called exactly once (never more than once while the handler runs, once
\* when it has finished) and no write is issued after end() has been called.
C29_EndOnceAndNoWriteAfter ==
    proc = "streaming" =>
      /\ endCalls <= 1
      /\ writesAfterEnd = 0
      /\ (hpc = "idle" /\ event # NullBody) => endCalls = 1

-----------------------------------------------------------------------------
(* Signing and sending.  The three invokers (signRequest with the proxy's  *)
(* invokeStreamingRequest, and invokeSignedApiRequest and                  *)
(* invokeStreamingRequest of the scripts) build an HttpRequest from the    *)
(* parsed endpoint URL, have SignatureV4 sign it, and call fetch() with    *)
(* the endpoint URL and the signed request's method, headers and body.     *)
(* An endpoint URL is given by the components new URL() parses it into.    *)

Invokers == {"proxyStreaming", "utilsApi", "utilsStreaming"}

Hostnames == {<<"f">>, <<"a">>}
Pathnames == {<<"/">>, <<"/", "p">>}
Searches == {<<>>, <<"?", "x">>}
Methods == {"POST", "GET"}
Bodies == {<<"{", "}">>, <<"{", "q", "}">>}

EndpointUrls == [hostname : Hostnames, pathname : Pathnames, search : Searches]

SignedCalls == [invoker : Invokers, endpoint : EndpointUrls, method : Methods,
                body : Bodies]

\* new HttpRequest({ method, hostname, path: url.pathname, protocol,
\* headers: { 'Content-Type', host: url.hostname }, body }): no query is
\* given, so the request's query is empty.
BuildRequest(call) ==
    [method  |-> IF call.invoker = "utilsApi" THEN call.method ELSE "POST",
     host    |-> call.endpoint.hostname,
     path    |-> call.endpoint.pathname,
     query   |-> <<>>,
     body    |-> call.body,
     headers |-> {"content-type", "host"}]

\* SignatureV4.sign(request): the signature covers the request's method,
\* path, query, headers and body; the signer adds its own headers.
Sign(request) ==
    [request EXCEPT !.headers = @ \cup {"x-amz-date", "x-amz-content-sha256",
                                        "authorization"}]

\* The query string of url.search: what follows the question mark.
QueryOf(search) == IF search = <<>> THEN <<>> ELSE Tail(search)

\* fetch(endpoint, { method, headers, body }) of the signed request: the
\* request goes to the endpoint URL, path and query string included.
Fetched(call, signedRequest) ==
    [method  |-> signedRequest.method,
     host    |-> call.endpoint.hostname,
     path    |-> call.endpoint.pathname,
     query   |-> QueryOf(call.endpoint.search),
     body    |-> signedRequest.body,
     headers |-> signedRequest.headers]

SignRequest ==
    /\ proc = "signer"
    /\ sigRun.pc = "idle"
    /\ sigRun' = [sigRun EXCEPT !.pc = "signed",
                                !.signed = Sign(BuildRequest(sigInput))]
    /\ UNCHANGED <<proc, serverVars, idPairs, derived, chunkInputs, toolVars,
                   s3Vars, sigInput, clientVars>>

FetchSigned ==
    /\ proc = "signer"
    /\ sigRun.pc = "signed"
    /\ sigRun' = [sigRun EXCEPT !.pc = "sent",
                                !.sent = Fetched(sigInput, sigRun.signed)]
    /\ UNCHANGED <<proc, serverVars, idPairs, derived, chunkInputs, toolVars,
                   s3Vars, sigInput, clientVars>>

InitSigning ==
    /\ proc = "signer"
    /\ inits = <<>>
    /\ mastraInstancePromise = NoPromise
    /\ callers = [c \in 1..NumCallers |->
                    [pc |-> "start", promise |-> NoPromise, got |-> <<"none", 0>>]]
    /\ hpc = "idle"
    /\ event = NullBody
    /\ heldPromise = NoPromise
    /\ agentCall = NoCall
    /\ prevAgentCall = NoCall
    /\ response = NoResponse
    /\ writes = <<>>
    /\ endCalls = 0
    /\ writesAfterEnd = 0
    /\ contentType = "none"
    /\ networkBuilds = 0
    /\ idPairs = <<>>
    /\ derived = <<>>
    /\ chunkInputs = <<>>
    /\ toolCalls = <<>>
    /\ toolOutcomes = <<>>
    /\ s3Input = NoStream
    /\ s3Run = NotCalled
    /\ sigInput \in SignedCalls
    /\ sigRun = NotSigned
    /\ ClientInit

SpecSigning == InitSigning /\ [][SignRequest \/ FetchSigned]_vars

\* C30: for every endpoint URL the request sent is the request signed: the
\* method, host, path with its query string, and body the signature covers
\* equal those of the request fetch() issues, and the signed headers
\* contain host.
C30_SentIsSigned ==
    (proc = "signer" /\ sigRun.pc = "sent") =>
      /\ sigRun.signed.method = sigRun.sent.method
      /\ sigRun.signed.host = sigRun.sent.host
      /\ sigRun.signed.path = sigRun.sent.path
      /\ sigRun.signed.query = sigRun.sent.query
      /\ sigRun.signed.body = sigRun.sent.body
      /\ "host" \in sigRun.signed.headers

====
